---- MODULE Spec2Model ----
(***************************************************************************)
(* The reliability layer of the Solana token seller: ApiClient's retrying  *)
(* executeRequest (src/src/index.js), JupiterService's getQuote and        *)
(* getOptimalQuote (src/src/services/jupiterService.js), the backend's     *)
(* executeSwapService with its fee collection (src/jupiter.md), the run   *)
(* of TokenSeller from its prompts to the swap request, and the caches of  *)
(* WalletService.getWalletInfo and JupiterService.getSupportedTokens.      *)
(***************************************************************************)
EXTENDS Integers, Sequences, FiniteSets, TLC

(***************************************************************************)
(* Configuration (src/src/config/constants.js).                            *)
(***************************************************************************)
MAX_RETRIES == 3
RETRY_DELAY == 2000
MIN_SLIPPAGE_BPS == 50
DEFAULT_SLIPPAGE_BPS == 75
MAX_SLIPPAGE_BPS == 100
MAX_PRICE_IMPACT_PCT == 5
API_BASE_URL == "https://solanaapivolume.onrender.com/api"

\* Largest customRetries override the model passes to executeRequest.
MaxCustomRetries == 2

\* customRetries = null (the parameter's default).
NullRetries == -1

Range(s) == {s[i] : i \in DOMAIN s}

RECURSIVE Pow2(_)
\* Math.pow(2, n) for the non-negative integers n the retry loop passes.
Pow2(n) == IF n <= 0 THEN 1 ELSE 2 * Pow2(n - 1)

(***************************************************************************)
(* JavaScript numbers are IEEE-754 doubles.  The amounts are computed with *)
(* x * (a / den) and Math.floor; the operators below compute that          *)
(* expression as the machine does, with its two roundings to 53 bits, on   *)
(* naturals held as sequences of 15-bit limbs, least significant first.    *)
(***************************************************************************)
LimbBits == 15
LimbBase == 32768
MantissaBits == 53

RECURSIVE BigMulSmallFrom(_, _, _, _)
BigMulSmallFrom(x, k, i, carry) ==
    IF i > Len(x)
    THEN IF carry = 0 THEN <<>> ELSE <<carry>>
    ELSE LET t == x[i] * k + carry
         IN <<t % LimbBase>> \o BigMulSmallFrom(x, k, i + 1, t \div LimbBase)

\* x * k, for 0 <= k <= LimbBase
BigMulSmall(x, k) == BigMulSmallFrom(x, k, 1, 0)

RECURSIVE BigDivSmallFrom(_, _, _, _)
BigDivSmallFrom(x, k, i, rem) ==
    IF i = 0
    THEN [q |-> <<>>, r |-> rem]
    ELSE LET t == rem * LimbBase + x[i]
             rest == BigDivSmallFrom(x, k, i - 1, t % k)
         IN [q |-> Append(rest.q, t \div k), r |-> rest.r]

\* quotient and remainder of x by k, for 1 <= k <= LimbBase
BigDivSmall(x, k) == BigDivSmallFrom(x, k, Len(x), 0)

RECURSIVE BigAddFrom(_, _, _, _)
BigAddFrom(x, y, i, carry) ==
    IF i > Len(x) /\ i > Len(y)
    THEN IF carry = 0 THEN <<>> ELSE <<carry>>
    ELSE LET t == (IF i <= Len(x) THEN x[i] ELSE 0)
                    + (IF i <= Len(y) THEN y[i] ELSE 0) + carry
         IN <<t % LimbBase>> \o BigAddFrom(x, y, i + 1, t \div LimbBase)

BigAdd(x, y) == BigAddFrom(x, y, 1, 0)

\* x * n, for 0 <= n < LimbBase * LimbBase
BigMul(x, n) ==
    BigAdd(BigMulSmall(x, n % LimbBase),
           <<0>> \o BigMulSmall(x, n \div LimbBase))

\* 2^n
BigPow2(n) ==
    [i \in 1..(n \div LimbBits) |-> 0] \o <<Pow2(n % LimbBits)>>

RECURSIVE IntBitLen(_)
IntBitLen(n) == IF n = 0 THEN 0 ELSE 1 + IntBitLen(n \div 2)

\* The number of bits of x; 0 for zero.
BigBitLen(x) ==
    LET nonzero == {i \in DOMAIN x : x[i] # 0}
    IN IF nonzero = {} THEN 0
       ELSE LET top == CHOOSE i \in nonzero : \A j \in nonzero : j <= i
            IN LimbBits * (top - 1) + IntBitLen(x[top])

\* floor(x / 2^n)
BigShiftRight(x, n) ==
    BigDivSmall(SubSeq(x, (n \div LimbBits) + 1, Len(x)), Pow2(n % LimbBits)).q

\* whether one of the n low bits of x is set
BigLowBitsSet(x, n) ==
    \/ \E i \in 1..(n \div LimbBits) : i <= Len(x) /\ x[i] # 0
    \/ /\ (n \div LimbBits) + 1 <= Len(x)
       /\ x[(n \div LimbBits) + 1] % Pow2(n % LimbBits) # 0

BigOdd(x) == Len(x) >= 1 /\ x[1] % 2 = 1

\* x / 2^n rounded to the nearest integer, ties to the even one
BigShiftRightRound(x, n) ==
    IF n = 0 THEN x
    ELSE LET q == BigShiftRight(x, n)
             half == BigOdd(BigShiftRight(x, n - 1))
             roundUp == half /\ (BigLowBitsSet(x, n - 1) \/ BigOdd(q))
         IN IF roundUp THEN BigAdd(q, <<1>>) ELSE q

RECURSIVE BigToIntFrom(_, _)
BigToIntFrom(x, i) ==
    IF i > Len(x) THEN 0 ELSE x[i] + LimbBase * BigToIntFrom(x, i + 1)

\* the value of x as an integer, for x < 2^31
BigToInt(x) == BigToIntFrom(x, 1)

RECURSIVE ScaleExp(_, _, _)
\* the least k with a * 2^k >= den
ScaleExp(a, den, k) == IF a >= den THEN k ELSE ScaleExp(2 * a, den, k + 1)

\* The double a / den, for integers 0 < a <= den <= LimbBase / 2: the pair
\* (m, e) with a / den rounded to m / 2^e, 2^52 <= m <= 2^53.
DoubleRatio(a, den) ==
    LET e == (MantissaBits - 1) + ScaleExp(a, den, 0)
        d == BigDivSmall(BigMulSmall(BigPow2(e), a), den)
        roundUp == 2 * d.r > den \/ (2 * d.r = den /\ BigOdd(d.q))
    IN [m |-> IF roundUp THEN BigAdd(d.q, <<1>>) ELSE d.q, e |-> e]

\* Math.floor(x * (a / den)) in doubles, for integers 0 <= x < 2^30 and
\* 0 <= a <= den <= LimbBase / 2.
FloorMulRatio(x, a, den) ==
    IF x = 0 \/ a = 0 THEN 0
    ELSE LET ratio == DoubleRatio(a, den)
             exact == BigMul(ratio.m, x)
             drop == IF BigBitLen(exact) > MantissaBits
                     THEN BigBitLen(exact) - MantissaBits ELSE 0
             product == BigShiftRightRound(exact, drop)
         IN BigToInt(BigShiftRight(product, ratio.e - drop))

(***************************************************************************)
(* JavaScript values held by the fields of a response body.                *)
(***************************************************************************)
Undefined == [ty |-> "undefined", s |-> "", n |-> 0]
JsStr(str) == [ty |-> "string", s |-> str, n |-> 0]
JsNum(num) == [ty |-> "number", s |-> "", n |-> num]

\* The decimal strings the model uses, with the integer parseInt reads.
StrInt ==
    [str \in {"0", "150", "1000", "2000", "-5", "12abc"} |->
        CASE str = "0" -> 0
          [] str = "150" -> 150
          [] str = "1000" -> 1000
          [] str = "2000" -> 2000
          [] str = "-5" -> 0 - 5
          [] OTHER -> 12]

\* !v
Falsy(v) ==
    \/ v.ty = "undefined"
    \/ v.ty = "string" /\ v.s = ""
    \/ v.ty = "number" /\ v.n = 0

\* The decimal strings the model uses for a price impact, with the number
\* parseFloat reads, in tenths.
StrTenths ==
    [str \in {"0.1", "7.5"} |-> IF str = "0.1" THEN 1 ELSE 75]

\* parseFloat(v), in tenths, or NaN.
parseFloat(v) ==
    IF v.ty = "number" THEN [nan |-> FALSE, tenths |-> 10 * v.n]
    ELSE IF v.ty = "string" /\ v.s \in DOMAIN StrTenths
         THEN [nan |-> FALSE, tenths |-> StrTenths[v.s]]
         ELSE [nan |-> TRUE, tenths |-> 0]

\* parseInt(v): the integer read, or NaN.
parseInt(v) ==
    IF v.ty = "number" THEN [nan |-> FALSE, n |-> v.n]
    ELSE IF v.ty = "string" /\ v.s \in DOMAIN StrInt
         THEN [nan |-> FALSE, n |-> StrInt[v.s]]
         ELSE [nan |-> TRUE, n |-> 0]

(***************************************************************************)
(* Errors as the catch block of executeRequest sees them.                  *)
(***************************************************************************)
StatusText(status) ==
    CASE status = 400 -> "Bad Request"
      [] status = 404 -> "Not Found"
      [] status = 408 -> "Request Timeout"
      [] status = 429 -> "Too Many Requests"
      [] status = 500 -> "Internal Server Error"
      [] status = 502 -> "Bad Gateway"
      [] status = 503 -> "Service Unavailable"
      [] OTHER -> "Error"

\* An axios error for a response with a status outside 2xx whose body holds
\* no message (dataMessage is "" for a body without one).
HttpError(status, url) ==
    [code |-> IF status >= 500 THEN "ERR_BAD_RESPONSE" ELSE "ERR_BAD_REQUEST",
     hasResponse |-> TRUE, status |-> status, statusText |-> StatusText(status),
     dataMessage |-> "", hasRequest |-> TRUE, url |-> url,
     message |-> "Request failed with status code"]

\* The message the backend puts in the body of its error responses.
BackendMessage(status) ==
    CASE status = 400 -> "Missing required parameter: quoteResponse"
      [] status = 404 -> "Route not found"
      [] status = 500 -> "Error executing Jupiter swap."
      [] status = 502 -> "Error communicating with Jupiter API."
      [] OTHER -> "Error"

\* The same error for a response whose body is { message: dataMessage }.
WithData(error, dataMessage) == [error EXCEPT !.dataMessage = dataMessage]

\* error.response.data?.message || error.response.statusText
responseMessage(error) ==
    IF error.dataMessage # "" THEN error.dataMessage ELSE error.statusText

\* An axios error for a request that got no response.
TransportError(code, url) ==
    [code |-> code, hasResponse |-> FALSE, status |-> 0, statusText |-> "",
     dataMessage |-> "", hasRequest |-> TRUE, url |-> url,
     message |-> IF code = "ECONNABORTED" THEN "timeout of 30000ms exceeded"
                 ELSE "socket error"]

\* new Error(`Unsupported HTTP method: ${method}`), thrown before any request.
UnsupportedMethodError ==
    [code |-> "", hasResponse |-> FALSE, status |-> 0, statusText |-> "",
     dataMessage |-> "", hasRequest |-> FALSE, url |-> "unknown",
     message |-> "Unsupported HTTP method"]

NoError ==
    [code |-> "", hasResponse |-> FALSE, status |-> 0, statusText |-> "",
     dataMessage |-> "", hasRequest |-> FALSE, url |-> "", message |-> ""]

HttpStatuses == {400, 404, 408, 429, 500, 502, 503}
\* The statuses the backend answers with a message in the body.
MessageStatuses == {400, 404, 500, 502}
TransportCodes ==
    {"ECONNRESET", "ENOTFOUND", "ECONNREFUSED", "ECONNABORTED", "ETIMEDOUT"}

\* The failures the backend can answer a request of executeRequest with.
Failures(url) ==
    {HttpError(st, url) : st \in HttpStatuses}
        \cup {WithData(HttpError(st, url), BackendMessage(st)) : st \in MessageStatuses}
        \cup {TransportError(c, url) : c \in TransportCodes}

\* The failures the model draws for the quote requests of getOptimalQuote.
QuoteFailures(url) ==
    {HttpError(400, url), WithData(HttpError(400, url), BackendMessage(400)),
     HttpError(502, url), TransportError("ECONNRESET", url)}

isRetryableError_IgnoresStatus(error) ==
    error.code \in {"ECONNRESET", "ENOTFOUND", "ECONNREFUSED", "ECONNABORTED"}

isRetryableError(error) ==
    IF error.code = "ECONNRESET" \/ error.code = "ENOTFOUND"
           \/ error.code = "ECONNREFUSED"
    THEN TRUE
    ELSE IF error.code = "ECONNABORTED"
    THEN TRUE
    ELSE IF error.hasResponse /\ error.status # 0
    THEN error.status >= 500 \/ error.status = 429 \/ error.status = 408
    ELSE FALSE

formatError_NoStatus(error) ==
    IF error.hasResponse
    THEN <<"HTTP error", responseMessage(error)>>
    ELSE IF error.hasRequest
    THEN <<"Network error", error.message>>
    ELSE <<"Request error", error.message>>

\* The message of the Error formatError returns, as its parts in order.
formatError(error) ==
    IF error.hasResponse
    THEN IF error.status = 404
         THEN <<"HTTP", ToString(error.status),
                "Endpoint not found. Check API configuration.",
                "Full URL", API_BASE_URL, error.url,
                "Response", responseMessage(error)>>
         ELSE IF error.status = 502
         THEN <<"HTTP", "502", "Bad Gateway",
                "The API server is experiencing issues">>
         ELSE IF error.status = 500
         THEN <<"HTTP", "500", "Internal Server Error", responseMessage(error),
                "Check request parameters and API server logs.">>
         ELSE <<"HTTP", ToString(error.status), responseMessage(error)>>
    ELSE IF error.hasRequest
    THEN IF error.code = "ETIMEDOUT"
         THEN <<"Network timeout", "The API server is not responding">>
         ELSE <<"Network error", error.message>>
    ELSE <<"Request error", error.message>>

\* message.includes(part), on the parts of a message.
Includes(message, part) == part \in Range(message)

Retries_OneMore(custom) == IF custom # NullRetries THEN custom ELSE MAX_RETRIES + 1

Retries_IgnoresOverride(custom) == MAX_RETRIES

\* const retries = customRetries !== null ? customRetries : this.maxRetries
Retries(custom) == IF custom # NullRetries THEN custom ELSE MAX_RETRIES

isLastAttempt(att, r) == att > r

RetryDelay_Linear(att) == RETRY_DELAY * att

\* this.retryDelay * Math.pow(2, attempt - 1)
RetryDelay(att) == RETRY_DELAY * Pow2(att - 1)

SupportedMethod(m) == m \in {"get", "post", "put", "delete"}

(***************************************************************************)
(* JupiterService: mint addresses, quotes and their validation.            *)
(***************************************************************************)
\* A mint address argument, by what validateMintAddress reads of it.
\* falsy: !mintAddress; len: its length, 0 for a value that is no string.
Mint(isString, falsy, len, isWrappedSOL, base58) ==
    [isString |-> isString, falsy |-> falsy, len |-> len,
     isWrappedSOL |-> isWrappedSOL, base58 |-> base58]

GoodMint == Mint(TRUE, FALSE, 44, FALSE, TRUE)
WrappedSolMint == Mint(TRUE, FALSE, 43, TRUE, TRUE)
ShortMint == Mint(TRUE, FALSE, 43, FALSE, TRUE)
BadCharsMint == Mint(TRUE, FALSE, 44, FALSE, FALSE)

\* The mint address arguments of the modelled calls: the four above, a string
\* of 502 characters, one of 45 characters with a character outside base58,
\* the empty string, null and a number.
MintAddresses ==
    {GoodMint, WrappedSolMint, ShortMint, BadCharsMint,
     Mint(TRUE, FALSE, 502, FALSE, TRUE), Mint(TRUE, FALSE, 45, FALSE, FALSE),
     Mint(TRUE, TRUE, 0, FALSE, FALSE), Mint(FALSE, TRUE, 0, FALSE, FALSE),
     Mint(FALSE, FALSE, 0, FALSE, FALSE)}

isMintAddressFormat_AnyLength43(address) ==
    IF address.falsy \/ ~address.isString
    THEN FALSE
    ELSE (address.len = 44 \/ address.len = 43) /\ address.base58

\* isMintAddressFormat(address): the boolean it returns.
isMintAddressFormat(address) ==
    IF address.falsy \/ ~address.isString
    THEN FALSE
    ELSE LET isValidLength ==
                 address.len = 44 \/ (address.isWrappedSOL /\ address.len = 43)
         IN isValidLength /\ address.base58

\* analyzeMintAddress(address): the valid and issue fields of its result.
analyzeMintAddress(address) ==
    IF address.falsy
    THEN [valid |-> FALSE, issue |-> "null or undefined"]
    ELSE IF ~address.isString
    THEN [valid |-> FALSE, issue |-> "wrong type"]
    ELSE IF address.len # (IF address.isWrappedSOL THEN 43 ELSE 44)
    THEN [valid |-> FALSE, issue |-> "wrong length"]
    ELSE IF ~address.base58
    THEN [valid |-> FALSE, issue |-> "invalid base58 characters"]
    ELSE [valid |-> TRUE, issue |-> ""]

\* The message of the error validateMintAddress throws; <<>> when it returns.
validateMintAddress(mintAddress, fieldName) ==
    IF mintAddress.falsy \/ ~mintAddress.isString
    THEN <<"Invalid", fieldName, "must be a non-empty string">>
    ELSE IF ~mintAddress.isWrappedSOL /\ mintAddress.len # 44
    THEN <<"Invalid", fieldName, "must be exactly 44 characters long (got",
           ToString(mintAddress.len)>>
    ELSE IF mintAddress.isWrappedSOL /\ mintAddress.len # 43
    THEN <<"Invalid", fieldName, "Wrapped SOL must be exactly 43 characters long (got",
           ToString(mintAddress.len)>>
    ELSE IF ~mintAddress.base58
    THEN <<"Invalid", fieldName, "contains invalid base58 characters">>
    ELSE <<>>

\* quoteResponse.routePlan: absent, or an array of `length` entries.
NoRoutePlan == [defined |-> FALSE, length |-> 0]
RoutePlan(length) == [defined |-> TRUE, length |-> length]

\* The quoteResponse object of a quote response: the fields the client reads
\* and, of the fields it only passes on, otherAmountThreshold.
RawQuote(inAmount, outAmount) ==
    [inputMint |-> JsStr("mintA"), outputMint |-> JsStr("mintB"),
     inAmount |-> inAmount, outAmount |-> outAmount,
     priceImpactPct |-> JsStr("0.1"), routePlan |-> NoRoutePlan,
     otherAmountThreshold |-> JsStr("990")]

NoRawQuote ==
    [inputMint |-> Undefined, outputMint |-> Undefined, inAmount |-> Undefined,
     outAmount |-> Undefined, priceImpactPct |-> Undefined, routePlan |-> NoRoutePlan,
     otherAmountThreshold |-> Undefined]

WithRoutePlan(quote, routePlan) == [quote EXCEPT !.routePlan = routePlan]

\* response.data of a request.
QuoteBody(quote) == [hasQuoteResponse |-> TRUE, quote |-> quote]
EmptyBody == [hasQuoteResponse |-> FALSE, quote |-> NoRawQuote]

\* A quoteResponse object with the five fields the client reads.
QuoteWith(inMint, outMint, inAmount, outAmount, priceImpactPct) ==
    [inputMint |-> inMint, outputMint |-> outMint,
     inAmount |-> inAmount, outAmount |-> outAmount,
     priceImpactPct |-> priceImpactPct, routePlan |-> NoRoutePlan,
     otherAmountThreshold |-> JsStr("990")]

requiredFields == <<"inputMint", "outputMint", "inAmount", "outAmount">>

\* The condition under which validateQuote logs 'High price impact detected'
\* once its checks have passed.
highPriceImpact(quote) ==
    /\ ~Falsy(quote.priceImpactPct)
    /\ ~parseFloat(quote.priceImpactPct).nan
    /\ parseFloat(quote.priceImpactPct).tenths > 10 * MAX_PRICE_IMPACT_PCT

validateQuote_RejectsHighImpact(quote) ==
    IF \E i \in DOMAIN requiredFields : Falsy(quote[requiredFields[i]])
    THEN <<"Invalid quote: missing">>
    ELSE IF ~parseInt(quote.inAmount).nan /\ parseInt(quote.inAmount).n <= 0
    THEN <<"Invalid quote: input amount must be positive">>
    ELSE IF ~parseInt(quote.outAmount).nan /\ parseInt(quote.outAmount).n <= 0
    THEN <<"Invalid quote: output amount must be positive">>
    ELSE IF highPriceImpact(quote)
    THEN <<"Invalid quote: price impact too high">>
    ELSE <<>>

\* The message of the error validateQuote throws; <<>> when it returns.
validateQuote(quote) ==
    IF \E i \in DOMAIN requiredFields : Falsy(quote[requiredFields[i]])
    THEN LET i == CHOOSE j \in DOMAIN requiredFields :
                     /\ Falsy(quote[requiredFields[j]])
                     /\ \A k \in 1..(j - 1) : ~Falsy(quote[requiredFields[k]])
         IN <<"Invalid quote: missing", requiredFields[i]>>
    ELSE IF ~parseInt(quote.inAmount).nan /\ parseInt(quote.inAmount).n <= 0
    THEN <<"Invalid quote: input amount must be positive">>
    ELSE IF ~parseInt(quote.outAmount).nan /\ parseInt(quote.outAmount).n <= 0
    THEN <<"Invalid quote: output amount must be positive">>
    ELSE <<>>

\* outputAmount / inputAmount, as its two operands; 0 when inputAmount is 0.
calculatePrice(quote) ==
    LET inputAmount == parseInt(quote.inAmount)
        outputAmount == parseInt(quote.outAmount)
    IN IF ~inputAmount.nan /\ inputAmount.n = 0
       THEN [nan |-> FALSE, num |-> 0, den |-> 1]
       ELSE [nan |-> inputAmount.nan \/ outputAmount.nan,
             num |-> outputAmount.n, den |-> inputAmount.n]

\* Math.floor(outputAmount * ((10000 - slippageBps) / 10000)), in doubles, for
\* the amounts validateQuote lets through and slippageBps in 0..10000.
calculateMinimumOutput(quote, slippageBps) ==
    LET outputAmount == parseInt(quote.outAmount)
    IN IF outputAmount.nan
       THEN [nan |-> TRUE, n |-> 0]
       ELSE [nan |-> FALSE,
             n |-> FloorMulRatio(outputAmount.n, 10000 - slippageBps, 10000)]

\* quote.routePlan?.length || 1
routeLength(quote) ==
    IF quote.routePlan.defined /\ quote.routePlan.length # 0
    THEN quote.routePlan.length
    ELSE 1

enhanceQuote_DefaultSlippage(quote, slippageBps) ==
    [inputMint |-> quote.inputMint, outputMint |-> quote.outputMint,
     inAmount |-> quote.inAmount, outAmount |-> quote.outAmount,
     slippageBps |-> DEFAULT_SLIPPAGE_BPS,
     price |-> calculatePrice(quote),
     minimumOutput |-> calculateMinimumOutput(quote, slippageBps),
     priceImpactPct |-> parseFloat(IF Falsy(quote.priceImpactPct) THEN JsNum(0)
                                   ELSE quote.priceImpactPct),
     routeLength |-> routeLength(quote),
     routePlan |-> quote.routePlan,
     otherAmountThreshold |-> quote.otherAmountThreshold]

\* The quote getQuote returns: the fields of the quoteResponse, spread, with
\* slippageBps and priceImpactPct set anew and price, minimumOutput and
\* routeLength added (its timestamp, Date.now(), is left out).
enhanceQuote(quote, slippageBps) ==
    [inputMint |-> quote.inputMint, outputMint |-> quote.outputMint,
     inAmount |-> quote.inAmount, outAmount |-> quote.outAmount,
     slippageBps |-> slippageBps,
     price |-> calculatePrice(quote),
     minimumOutput |-> calculateMinimumOutput(quote, slippageBps),
     priceImpactPct |-> parseFloat(IF Falsy(quote.priceImpactPct) THEN JsNum(0)
                                   ELSE quote.priceImpactPct),
     routeLength |-> routeLength(quote),
     routePlan |-> quote.routePlan,
     otherAmountThreshold |-> quote.otherAmountThreshold]

NoQuote ==
    [inputMint |-> Undefined, outputMint |-> Undefined, inAmount |-> Undefined,
     outAmount |-> Undefined, slippageBps |-> 0,
     price |-> [nan |-> FALSE, num |-> 0, den |-> 1],
     minimumOutput |-> [nan |-> FALSE, n |-> 0],
     priceImpactPct |-> [nan |-> FALSE, tenths |-> 0], routeLength |-> 0,
     routePlan |-> NoRoutePlan, otherAmountThreshold |-> Undefined]

\* How a call ended: it returned a body or a quote, or threw an error.
Returned(body) == [kind |-> "return", body |-> body, quote |-> NoQuote, msg |-> <<>>]
ReturnedQuote(quote) == [kind |-> "return", body |-> EmptyBody, quote |-> quote, msg |-> <<>>]
Threw(msg) == [kind |-> "throw", body |-> EmptyBody, quote |-> NoQuote, msg |-> msg]
FellThrough == [kind |-> "undefined", body |-> EmptyBody, quote |-> NoQuote, msg |-> <<>>]
Pending == [kind |-> "pending", body |-> EmptyBody, quote |-> NoQuote, msg |-> <<>>]

\* The catch block of getQuote: the message of the error it throws.
getQuoteCatch(message) ==
    IF Includes(message, "502") \/ Includes(message, "503")
           \/ Includes(message, "Bad Gateway")
    THEN <<"Server-side error", IF Includes(message, "502") THEN "502" ELSE "503",
           "The API server's Jupiter integration is experiencing issues">>
    ELSE IF Includes(message, "400")
    THEN <<"Bad request (400): Invalid parameters provided">> \o message
    ELSE <<"Failed to get quote">> \o message

getQuoteAfterPost_NoChecks(er, slippageBps) ==
    IF er.kind = "throw"
    THEN Threw(getQuoteCatch(er.msg))
    ELSE ReturnedQuote(enhanceQuote(er.body.quote, slippageBps))

\* getQuote from the point where apiClient.post has ended with outcome `er`.
getQuoteAfterPost(er, slippageBps) ==
    IF er.kind = "throw"
    THEN Threw(getQuoteCatch(er.msg))
    ELSE IF er.kind = "undefined"
    THEN Threw(getQuoteCatch(<<"Cannot read properties of undefined">>))
    ELSE IF ~er.body.hasQuoteResponse
    THEN Threw(getQuoteCatch(<<"Invalid response format: missing quoteResponse">>))
    ELSE IF validateQuote(er.body.quote) # <<>>
    THEN Threw(getQuoteCatch(validateQuote(er.body.quote)))
    ELSE ReturnedQuote(enhanceQuote(er.body.quote, slippageBps))

slippageOptions == <<MIN_SLIPPAGE_BPS, DEFAULT_SLIPPAGE_BPS, MAX_SLIPPAGE_BPS>>

(***************************************************************************)
(* executeSwapService: its feeResult and its outcome.                      *)
(***************************************************************************)
TOKENS_SOL == "So11111111111111111111111111111111111111112"
TOKENS_USDC == "EPjFWdd5AufqSSqeM2qN1xzybapC8G4wEGGkZwyTDt1v"
LAMPORTS_PER_SOL == 1000000000

\* FEE_PERCENTAGE = 0.001, the double FeeRateNum / FeeRateDen
FeeRateNum == 1
FeeRateDen == 1000

\* Math.floor(1000000 * FEE_PERCENTAGE): the operand for inputs other than SOL
NonSolFeeBase == 1000000
minimumFeeLamports == 100000
\* userBalance < feeAmountLamports + 10000
FeeTxBuffer == 10000
\* const maxRetries = 5
maxRetries == 5

\* lamportsToSol(lamports), as its two operands.
lamportsToSol(lamports) == [num |-> lamports, den |-> LAMPORTS_PER_SOL]

\* let feeResult = null
NoFeeResult ==
    [status |-> "null", feeAmount |-> [num |-> 0, den |-> 1],
     transactionId |-> "", error |-> <<>>]

FeeSkipped(fee) ==
    [status |-> "skipped", feeAmount |-> lamportsToSol(fee), transactionId |-> "",
     error |-> <<>>]

FeeSuccess(fee, feeSignature) ==
    [status |-> "success", feeAmount |-> lamportsToSol(fee),
     transactionId |-> feeSignature, error |-> <<>>]

FeeFailed_KeepsTransactionId(message) ==
    [status |-> "failed", feeAmount |-> [num |-> 0, den |-> 1],
     transactionId |-> "feeSignature", error |-> <<"Fee collection error">> \o message]

FeeFailed(message) ==
    [status |-> "failed", feeAmount |-> [num |-> 0, den |-> 1],
     transactionId |-> "", error |-> <<"Fee collection error">> \o message]

\* The call has not ended.
SwapPending ==
    [kind |-> "pending", transactionId |-> "", feeCollection |-> NoFeeResult,
     msg |-> <<>>]

\* return { status: 'success', transactionId: signature, feeCollection, ... }
SwapReturned(signature, feeResult) ==
    [kind |-> "return", transactionId |-> signature, feeCollection |-> feeResult,
     msg |-> <<>>]

executeSwapCatch_ReturnsFailure(message) ==
    [kind |-> "return", transactionId |-> "", feeCollection |-> NoFeeResult,
     msg |-> <<"Failed to execute swap">> \o message]

\* The outer catch block: throw new Error(`Failed to execute swap: ...`)
executeSwapCatch(message) ==
    [kind |-> "throw", transactionId |-> "", feeCollection |-> NoFeeResult,
     msg |-> <<"Failed to execute swap">> \o message]

\* One step of a call, with how it ended and the number it was given.
Step(op, outcome, arg) == [op |-> op, outcome |-> outcome, arg |-> arg]

\* feeAmountLamports once the minimum is ensured.
feeAmountLamports(inMint, inAmount) ==
    LET fee == IF inMint = TOKENS_SOL
               THEN FloorMulRatio(inAmount, FeeRateNum, FeeRateDen)
               ELSE FloorMulRatio(NonSolFeeBase, FeeRateNum, FeeRateDen)
    IN IF fee < minimumFeeLamports THEN minimumFeeLamports ELSE fee

insufficientBalance_NoBuffer(userBalance, fee) == userBalance < fee

\* if (userBalance < feeAmountLamports + 10000)
insufficientBalance(userBalance, fee) == userBalance < fee + FeeTxBuffer

confirmDelay_FromOneSecond(r) == 1000 * Pow2(r - 1)

\* await delay(1000 * Math.pow(2, retries))
confirmDelay(r) == 1000 * Pow2(r)

confirmGivesUp_OneMore(r) == r > maxRetries

\* if (retries >= maxRetries) throw error
confirmGivesUp(r) == r >= maxRetries

\* while (retries < maxRetries)
confirmLoopCond(r) == r < maxRetries

\* The catch block of the confirmation loop, with retries already incremented.
afterConfirmCatch(r) == IF confirmGivesUp(r) THEN "throw" ELSE "delay"

afterDelay_Resends(r) == IF confirmLoopCond(r) THEN "send" ELSE "exit"

\* The loop after its delay: the next awaited call, or the end of the loop.
afterDelay(r) == IF confirmLoopCond(r) THEN "confirm" ELSE "exit"

signTransaction_GoesOnUnsigned(answer) ==
    IF answer \in {"versioned", "legacy"} THEN answer ELSE "unsigned"

afterConfirmation_AlwaysCollects(collectFees) == "feeBalance"

\* if (collectFees) after the confirmation loop: the next awaited call.
afterConfirmation(collectFees) ==
    IF collectFees THEN "feeBalance" ELSE "finalBalance"

\* req.body of POST /jupiter/swap: the private key, and quoteResponse with
\* the four fields the controller tests; `shape` says what the body lacks.
SwapRequest(shape, inMint, inAmount) ==
    [userWalletPrivateKeyBase58 |->
         IF shape = "noKey" THEN Undefined ELSE JsStr("key"),
     hasQuoteResponse |-> shape # "noQuoteResponse",
     quoteResponse |->
         IF shape = "noQuoteResponse" THEN NoRawQuote
         ELSE QuoteWith(JsStr(inMint), JsStr("mintB"),
                        IF shape = "zeroInAmount" THEN JsNum(0)
                        ELSE JsStr(ToString(inAmount)),
                        IF shape = "noOutAmount" THEN Undefined ELSE JsStr("1000"),
                        JsStr("0.1"))]

\* The three guards executeSwapController runs before it calls the service:
\* the message of its 400 response, <<>> when the body passes.
validateSwapRequest(body) ==
    IF Falsy(body.userWalletPrivateKeyBase58)
    THEN <<"Missing required parameter: userWalletPrivateKeyBase58">>
    ELSE IF ~body.hasQuoteResponse
    THEN <<"Missing required parameter: quoteResponse">>
    ELSE IF Falsy(body.quoteResponse.inputMint) \/ Falsy(body.quoteResponse.outputMint)
              \/ Falsy(body.quoteResponse.inAmount)
              \/ Falsy(body.quoteResponse.outAmount)
    THEN <<"Invalid quoteResponse: missing required fields">>
    ELSE <<>>

\* The response executeSwapController sends for a body and, when the body
\* passes the guards, the outcome of executeSwapService.
executeSwapController(body, outcome) ==
    IF validateSwapRequest(body) # <<>>
    THEN [status |-> 400, message |-> validateSwapRequest(body)[1],
          error |-> <<>>, transactionId |-> ""]
    ELSE IF outcome.kind = "return"
    THEN [status |-> 200, message |-> "Swap executed successfully",
          error |-> <<>>, transactionId |-> outcome.transactionId]
    ELSE IF Includes(outcome.msg, "HTTP error")
    THEN [status |-> 502, message |-> "Error communicating with Jupiter API.",
          error |-> outcome.msg, transactionId |-> ""]
    ELSE IF Includes(outcome.msg, "transaction failed")
    THEN [status |-> 400, message |-> "Swap transaction failed.",
          error |-> outcome.msg, transactionId |-> ""]
    ELSE IF Includes(outcome.msg, "Invalid public key")
              \/ Includes(outcome.msg, "Invalid private key")
    THEN [status |-> 400, message |-> "Invalid wallet key provided.",
          error |-> outcome.msg, transactionId |-> ""]
    ELSE [status |-> 500, message |-> "Error executing Jupiter swap.",
          error |-> outcome.msg, transactionId |-> ""]

\* The catch block of getSwapTransaction: the message of the error it throws
\* when fetch rejects ("rejected"), when the answer is not ok and its text is
\* read ("throw") or cannot be read ("textRejected"), and when response.json()
\* rejects ("invalidJson").
getSwapTransactionCatch(answer) ==
    <<"Failed to get swap transaction">> \o
        (IF answer = "throw" THEN <<"HTTP error", "Status">>
         ELSE IF answer = "rejected" THEN <<"request to Jupiter failed">>
         ELSE IF answer = "textRejected" THEN <<"Premature close">>
         ELSE <<"invalid json response body">>)

\* Whether the catch block with Transaction.from and partialSign is entered:
\* the try block over VersionedTransaction.deserialize and sign has thrown.
legacyFallback(answer) == answer # "versioned"

\* That try block and its catch block: the format signed, "throw" when the
\* catch block throws too.
signTransaction(answer) ==
    IF ~legacyFallback(answer) THEN "versioned"
    ELSE IF answer \in {"legacy", "unsignableLegacy"} THEN "legacy"
    ELSE "throw"

\* The retry utility of utils/solanaUtils around sendRawTransaction, after
\* the failures-th failed call of its function: whether it calls again.  The
\* raw signed transaction is submitted once, so it does not.
retryMayCallAgain(failures) == FALSE

(***************************************************************************)
(* TokenSeller and the wallet and swap calls it makes.                     *)
(***************************************************************************)
\* A JavaScript object held where a primitive may also be.
JsObj(name) == [ty |-> "object", s |-> name, n |-> 0]

strategyMap == <<"immediate", "gradual", "optimal">>
slippageMap == <<MIN_SLIPPAGE_BPS, DEFAULT_SLIPPAGE_BPS, MAX_SLIPPAGE_BPS>>
OUTPUT_TOKENS == {"SOL", "USDC", "USDT"}

\* input.replace(/,/g, '')
stripCommas(str) == IF str = "1,000" THEN "1000" ELSE str

\* What the user may type at the amount prompt.
AmountInputs == {"0", "150", "1,000", "2000", "-5", "12abc", "abc"}

\* askTokenAmount: the amount read from one input, 0 when the prompt is
\* repeated.
askTokenAmount(input) ==
    LET amount == parseInt(JsStr(stripCommas(input)))
    IN IF amount.nan \/ amount.n <= 0 THEN 0 ELSE amount.n

Pow10(n) == IF n = 0 THEN 1 ELSE IF n = 1 THEN 10 ELSE 100

\* validateTokenAmount with the balanceData checkTokenHolding got: the message
\* of the error thrown, <<>> when it returns true.  balance / 10^decimals is
\* compared with amount exactly, both sides being small integers scaled by a
\* power of ten.
validateTokenAmount(amount, balanceData) ==
    IF amount <= 0
    THEN <<"Token amount must be positive">>
    ELSE LET hasToken == balanceData.balance > 0
         IN IF ~hasToken \/ balanceData.balance < amount * Pow10(balanceData.decimals)
            THEN <<"Insufficient token balance">>
            ELSE <<>>

\* Balances in SOL are held in units of 1/SolUnits SOL.
SolUnits == 10 * 1000
estimatedFeeSol == (2 * SolUnits) \div 1000

validateSolForFees_NoCheck(balance) == <<>>

\* validateSolForFees with the balance getSolBalance(true) got: the message
\* of the error thrown, <<>> when it returns true.
validateSolForFees(balance) ==
    IF balance < estimatedFeeSol
    THEN <<"Insufficient SOL balance for transaction fees">>
    ELSE <<>>

executeSellingStrategy_RejectsFallbacks(strategy) ==
    IF strategy = "immediate" THEN "executeImmediateSale" ELSE "throw"

\* The switch of executeSellingStrategy: the method it awaits, or "throw".
executeSellingStrategy(strategy) ==
    IF strategy = "immediate" THEN "executeImmediateSale"
    ELSE IF strategy \in {"gradual", "optimal"} THEN "executeImmediateSale"
    ELSE "throw"

confirmedSwap_Always(confirmed) == TRUE

\* if (!confirmed) return, in executeImmediateSale: whether the sale goes on.
confirmedSwap(confirmed) == confirmed

\* The quote getOptimalQuote returns to TokenSeller: the enhanced quote, which
\* holds every field of the backend's quoteResponse; `nested` is the value of
\* a field named quoteResponse in it, undefined for a Jupiter quote.
SellerQuote(quote, nested) == quote @@ [quoteResponse |-> nested]

\* The body of the backend's answer to POST /jupiter/swap.
SwapResponse(transactionId) ==
    [message |-> "Swap executed successfully", transactionId |-> transactionId]
NoSwapResponse == [message |-> "", transactionId |-> Undefined]

SwapOk(body) == [ok |-> TRUE, body |-> body, error |-> NoError]
SwapFailed(error) == [ok |-> FALSE, body |-> NoSwapResponse, error |-> error]

\* The catch block of JupiterService.executeSwap: the message it throws.
executeSwapRethrow(message) ==
    IF Includes(message, "502") \/ Includes(message, "Bad Gateway")
    THEN <<"Server-side swap execution error">>
    ELSE <<"Failed to execute swap">> \o message

SwapCallPending ==
    [kind |-> "pending", response |-> NoSwapResponse, msg |-> <<>>, posted |-> FALSE]
SwapCallThrew(msg, posted) ==
    [kind |-> "throw", response |-> NoSwapResponse, msg |-> msg, posted |-> posted]

executeSwap_TrustsResponse(quoteResponse, answer) ==
    IF quoteResponse.ty = "undefined"
    THEN SwapCallThrew(<<"Cannot read properties of undefined">>, FALSE)
    ELSE IF ~answer.ok
    THEN SwapCallThrew(executeSwapRethrow(formatError(answer.error)), TRUE)
    ELSE [kind |-> "return", response |-> answer.body, msg |-> <<>>, posted |-> TRUE]

\* JupiterService.executeSwap(quoteResponse, collectFees) when apiClient.post
\* ends with `answer`.  Reading quoteResponse.inputMint of an undefined
\* quoteResponse throws in the try block and again in the catch block,
\* before any request.
executeSwap(quoteResponse, answer) ==
    IF quoteResponse.ty = "undefined"
    THEN SwapCallThrew(<<"Cannot read properties of undefined">>, FALSE)
    ELSE IF ~answer.ok
    THEN SwapCallThrew(executeSwapRethrow(formatError(answer.error)), TRUE)
    ELSE IF Falsy(answer.body.transactionId)
    THEN SwapCallThrew(
             executeSwapRethrow(<<"Invalid response format: missing transactionId">>),
             TRUE)
    ELSE [kind |-> "return", response |-> answer.body, msg |-> <<>>, posted |-> TRUE]

\* this.executionSummary
NoSummary ==
    [totalTokensSold |-> 0, totalReceived |-> 0, transactionCount |-> 0,
     success |-> FALSE, transactions |-> <<>>]

NoPreferences ==
    [tokenAmount |-> 0, outputToken |-> "", strategy |-> "", maxSlippage |-> 0]

NoBalanceData == [balance |-> 0, decimals |-> 0]

(***************************************************************************)
(* State.                                                                  *)
(***************************************************************************)
(* The caches of WalletService.getWalletInfo and of                        *)
(* JupiterService.getSupportedTokens.                                      *)
(***************************************************************************)
\* const maxCacheAge = 30000
maxCacheAge == 30000

\* this.walletInfo = null
NoWalletInfo == [publicKey |-> "", balanceSol |-> 0, lastUpdated |-> 0]

\* this.supportedTokens = null, and a response without a tokens field
NoTokens == "null"

NoCacheCall == [op |-> "none", forceRefresh |-> FALSE, at |-> 0]

\* What apiClient.get ends with: a body or an error.
GetOk(publicKey, balanceSol, tokens) ==
    [ok |-> TRUE, publicKey |-> publicKey, balanceSol |-> balanceSol, tokens |-> tokens]
GetFailed == [ok |-> FALSE, publicKey |-> "", balanceSol |-> 0, tokens |-> NoTokens]

isBalanceCacheValid_Inclusive(last, now) ==
    IF last = 0 THEN FALSE ELSE now - last <= maxCacheAge

\* lastBalanceCheck is null before the first fetch and a positive time after.
isBalanceCacheValid(last, now) ==
    IF last = 0 THEN FALSE ELSE now - last < maxCacheAge

\* if (this.walletInfo && !forceRefresh && this.isBalanceCacheValid())
useCachedWalletInfo(info, forceRefresh, last, now) ==
    info # NoWalletInfo /\ ~forceRefresh /\ isBalanceCacheValid(last, now)

\* getWalletInfo from the point where apiClient.get has ended with `answer`
\* at time `now`: the two fields and whether it returns (balanceSol || 0).
getWalletInfoAfterGet(answer, info, last, now) ==
    IF ~answer.ok \/ answer.publicKey = ""
    THEN [walletInfo |-> info, lastBalanceCheck |-> last, ok |-> FALSE]
    ELSE [walletInfo |-> [publicKey |-> answer.publicKey,
                          balanceSol |-> answer.balanceSol,
                          lastUpdated |-> now],
          lastBalanceCheck |-> now, ok |-> TRUE]

useCachedTokens_Never(tokens) == FALSE

\* if (this.supportedTokens)
useCachedTokens(tokens) == tokens # NoTokens

\* getSupportedTokens from the point where apiClient.get has ended with
\* `answer`: the field and whether it returns.
getSupportedTokensAfterGet(answer, tokens) ==
    IF ~answer.ok \/ answer.tokens = NoTokens
    THEN [supportedTokens |-> tokens, ok |-> FALSE]
    ELSE [supportedTokens |-> answer.tokens, ok |-> TRUE]

\* A call that has ended: when it was made and when it ended, whether it
\* called apiClient.get and with what answer, whether it returned, and the
\* wallet info or the token map it returned.
CacheCallEnded(call, doneAt, requested, answer, ok, info, tokens) ==
    [op |-> call.op, forceRefresh |-> call.forceRefresh, at |-> call.at,
     doneAt |-> doneAt, requested |-> requested, answer |-> answer, ok |-> ok,
     value |-> info, tokens |-> tokens]

(***************************************************************************)
VARIABLES
    entry,          \* the call under study: "executeRequest" or "getOptimalQuote"
    method,         \* executeRequest's method argument
    endpoint,       \* executeRequest's endpoint argument
    customRetries,  \* executeRequest's customRetries argument
    inputMint,      \* getOptimalQuote's inputMint argument
    outputMint,     \* getOptimalQuote's outputMint argument
    plan,           \* what the backend has for each slippage tier
    pc,             \* where the call stands
    tier,           \* index in slippageOptions of the tier last started
    retries,        \* executeRequest's local retries
    attempt,        \* executeRequest's loop variable
    callReqs,       \* HTTP requests issued by the current executeRequest call
    tries,          \* how each try of the current executeRequest call ended
    callSleeps,     \* the sleeps of the current executeRequest call, in ms
    erOutcome,      \* how the current executeRequest call ended
    reqLog,         \* every HTTP request sent, in order
    tierOutcome,    \* how getQuote ended for each tier
    result,         \* how the call under study ended
    gqResponse,     \* getQuote: the quoteResponse of the backend's answer
    gqSlippageBps,  \* getQuote's slippageBps argument
    gqWarned,       \* getQuote: whether validateQuote logged its warning
    gqOutcome,      \* getQuote: how the call ended
    swRequest,      \* executeSwapController: the shape of req.body
    swInputMint,    \* executeSwapService: quoteResponse.inputMint
    swInAmount,     \* executeSwapService: quoteResponse.inAmount
    swCollectFees,  \* executeSwapService's collectFees argument
    swPc,           \* executeSwapService: where the call stands
    swRetries,      \* executeSwapService: retries of the confirmation loop
    swTrace,        \* executeSwapService: the awaited calls made, in order
    swFeeAmount,    \* executeSwapService: feeAmountLamports
    swFeeResult,    \* executeSwapService: feeResult
    swResult,       \* executeSwapService: how the call ended
    tsPc,           \* TokenSeller.run: where the run stands
    tsState,        \* TokenSeller: this.state
    tsPreferences,  \* the preferences getUserPreferences collects
    tsAnswers,      \* the user's answers to the two yes/no prompts
    tsBalanceData,  \* what the token balance request returned
    tsBalanceSol,   \* what the wallet request of validateSolForFees returned
    tsCalls,        \* the service calls the run made, in order
    tsQuote,        \* the quote getOptimalQuote returned
    tsSwapPosts,    \* the POST /jupiter/swap requests sent, in order
    tsSwapSleeps,   \* the delays executeRequest slept between them
    tsSwapAnswer,   \* how apiClient.post ended for the swap request
    tsSwapOutcome,  \* how JupiterService.executeSwap ended
    tsSummary,      \* TokenSeller: this.executionSummary
    tsExit          \* how the process ended

inputs == <<entry, method, endpoint, customRetries, inputMint, outputMint, plan>>
callVars == <<retries, attempt, callReqs, tries, callSleeps, erOutcome>>
coreVars == <<inputs, pc, tier, callVars, reqLog, tierOutcome, result>>
quoteVars == <<gqResponse, gqSlippageBps, gqWarned, gqOutcome>>
swapInputs == <<swRequest, swInputMint, swInAmount, swCollectFees>>
swapVars == <<swapInputs, swPc, swRetries, swTrace, swFeeAmount, swFeeResult, swResult>>
\* WalletService and JupiterService caches: the clock (Date.now()), the
\* fields walletInfo, lastBalanceCheck and supportedTokens, the call that
\* awaits apiClient.get, and the calls that have ended.
VARIABLES wsNow, wsTicks, walletInfo, lastBalanceCheck, supportedTokens,
          cacheCall, cacheLog

cacheVars == <<wsNow, wsTicks, walletInfo, lastBalanceCheck, supportedTokens,
               cacheCall, cacheLog>>
sellerVars == <<tsPc, tsState, tsPreferences, tsAnswers, tsBalanceData, tsBalanceSol,
                tsCalls, tsQuote, tsSwapPosts, tsSwapSleeps, tsSwapAnswer,
                tsSwapOutcome, tsSummary, tsExit>>
vars == <<coreVars, quoteVars, swapVars, sellerVars, cacheVars>>

Tiers == 1..Len(slippageOptions)

\* The (method, endpoint) pairs of the modelled direct calls.
Calls == {<<"get", "/jupiter/tokens">>, <<"post", "/jupiter/swap">>,
          <<"patch", "/jupiter/tokens">>}

PlanKinds == {"valid1000", "valid2000", "malformed", "error"}
PlanValid(p) == p \in {"valid1000", "valid2000"}
PlanOut(p) == IF p = "valid2000" THEN "2000" ELSE "1000"
PlanRoute(p) == IF p = "valid2000" THEN RoutePlan(2) ELSE NoRoutePlan

\* The bodies of a successful response that hold no acceptable quote.
MalformedBodies ==
    {EmptyBody,
     QuoteBody(RawQuote(JsStr("1000"), Undefined)),
     QuoteBody(RawQuote(JsStr("1000"), JsStr("0")))}

\* The requests of reqLog that wait for their answer.
inflight == {i \in DOMAIN reqLog : reqLog[i].answer = "inflight"}

Answered(log, answer) ==
    [i \in DOMAIN log |->
        IF log[i].answer = "inflight" THEN [log[i] EXCEPT !.answer = answer]
        ELSE log[i]]

TryOk(body) == [ok |-> TRUE, body |-> body, error |-> NoError]
TryFailed(error) == [ok |-> FALSE, body |-> EmptyBody, error |-> error]

\* No getQuote call of its own is under study.
QuoteIdle ==
    /\ gqResponse = NoRawQuote
    /\ gqSlippageBps = DEFAULT_SLIPPAGE_BPS
    /\ gqWarned = FALSE
    /\ gqOutcome = Pending

\* No executeSwapService call is under study.
SwapIdle ==
    /\ swRequest = "valid"
    /\ swInputMint = "SOL"
    /\ swInAmount = 0
    /\ swCollectFees = FALSE
    /\ swPc = "idle"
    /\ swRetries = 0
    /\ swTrace = <<>>
    /\ swFeeAmount = 0
    /\ swFeeResult = NoFeeResult
    /\ swResult = SwapPending

\* The caches as the constructors leave them, with no call under study.
CacheIdle ==
    /\ wsNow = 1
    /\ wsTicks = 0
    /\ walletInfo = NoWalletInfo
    /\ lastBalanceCheck = 0
    /\ supportedTokens = NoTokens
    /\ cacheCall = NoCacheCall
    /\ cacheLog = <<>>

\* No run of TokenSeller is under study.
SellerIdle ==
    /\ tsPc = "idle"
    /\ tsState = "INITIALIZING"
    /\ tsPreferences = NoPreferences
    /\ tsAnswers = [config |-> "unasked", swap |-> "unasked"]
    /\ tsBalanceData = NoBalanceData
    /\ tsBalanceSol = 0
    /\ tsCalls = <<>>
    /\ tsQuote = SellerQuote(NoQuote, Undefined)
    /\ tsSwapPosts = <<>>
    /\ tsSwapSleeps = <<>>
    /\ tsSwapAnswer = SwapFailed(NoError)
    /\ tsSwapOutcome = SwapCallPending
    /\ tsSummary = NoSummary
    /\ tsExit = "running"

\* Neither executeRequest nor getOptimalQuote is under study.
CoreIdle(e) ==
    /\ entry = e
    /\ method = "post"
    /\ endpoint = "/jupiter/quote"
    /\ customRetries = NullRetries
    /\ inputMint = GoodMint
    /\ outputMint = WrappedSolMint
    /\ plan = [t \in Tiers |-> "error"]
    /\ pc = "idle"
    /\ tier = 0
    /\ retries = 0
    /\ attempt = 1
    /\ callReqs = 0
    /\ tries = <<>>
    /\ callSleeps = <<>>
    /\ erOutcome = Pending
    /\ reqLog = <<>>
    /\ tierOutcome = [t \in Tiers |-> Pending]
    /\ result = Pending

Init ==
    /\ QuoteIdle
    /\ SwapIdle
    /\ SellerIdle
    /\ CacheIdle
    /\ entry \in {"executeRequest", "getOptimalQuote"}
    /\ IF entry = "executeRequest"
       THEN /\ \E call \in Calls : method = call[1] /\ endpoint = call[2]
            /\ customRetries \in {NullRetries} \cup (0..MaxCustomRetries)
            /\ inputMint = GoodMint
            /\ outputMint = WrappedSolMint
            /\ plan = [t \in Tiers |-> "error"]
            /\ pc = "start"
       ELSE /\ method = "post"
            /\ endpoint = "/jupiter/quote"
            /\ customRetries = NullRetries
            /\ inputMint \in MintAddresses \ {WrappedSolMint}
            /\ outputMint \in {WrappedSolMint, BadCharsMint}
            /\ plan \in [Tiers -> PlanKinds]
            /\ pc = "nextTier"
    /\ tier = 0
    /\ retries = 0
    /\ attempt = 1
    /\ callReqs = 0
    /\ tries = <<>>
    /\ callSleeps = <<>>
    /\ erOutcome = Pending
    /\ reqLog = <<>>
    /\ tierOutcome = [t \in Tiers |-> Pending]
    /\ result = Pending

(***************************************************************************)
(* ApiClient.executeRequest.                                               *)
(***************************************************************************)
LoopCond_StopsEarly(att, r) == att <= r

\* for (let attempt = 1; attempt <= retries + 1; attempt++)
LoopCond(att, r) == att <= r + 1

ShouldGiveUp_OnlyLast(att, r, error) == isLastAttempt(att, r)

\* if (isLastAttempt || !isRetryableError)
ShouldGiveUp(att, r, error) == isLastAttempt(att, r) \/ ~isRetryableError(error)

onSuccess_RethrowsFirst(prior, body) ==
    IF prior # <<>> THEN Threw(formatError(prior[1].error)) ELSE Returned(body)

\* return response.data, after the tries `prior` of the same call
onSuccess(prior, body) == Returned(body)

optimalQuoteStep_Escapes(t, gq) ==
    IF gq.kind = "return"
    THEN [pc |-> "done", result |-> gq]
    ELSE [pc |-> "done", result |-> Threw(<<"Failed to get optimal quote">> \o gq.msg)]

optimalQuoteStep_ReturnsUndefined(t, gq) ==
    IF gq.kind = "return"
    THEN [pc |-> "done", result |-> gq]
    ELSE IF t < Len(slippageOptions)
    THEN [pc |-> "nextTier", result |-> Pending]
    ELSE [pc |-> "done", result |-> FellThrough]

optimalQuoteStep_KeepsGoing(t, gq) ==
    IF t < Len(slippageOptions)
    THEN [pc |-> "nextTier", result |-> Pending]
    ELSE IF gq.kind = "return"
    THEN [pc |-> "done", result |-> gq]
    ELSE [pc |-> "done",
          result |-> Threw(<<"Failed to get optimal quote", "No valid quotes received">>)]

\* One iteration of getOptimalQuote's loop, once getQuote has ended with gq
\* for tier t: return the quote, go on to the next tier, or throw after the
\* last one.
optimalQuoteStep(t, gq) ==
    IF gq.kind = "return"
    THEN [pc |-> "done", result |-> gq]
    ELSE IF t < Len(slippageOptions)
    THEN [pc |-> "nextTier", result |-> Pending]
    ELSE [pc |-> "done",
          result |-> Threw(<<"Failed to get optimal quote", "No valid quotes received">>)]

\* getQuote has ended with gq for the current tier.
TierEnds(gq) ==
    /\ tierOutcome' = [tierOutcome EXCEPT ![tier] = gq]
    /\ pc' = optimalQuoteStep(tier, gq).pc
    /\ result' = optimalQuoteStep(tier, gq).result

\* executeRequest has ended with er: its caller goes on.
EndCall(er) ==
    /\ erOutcome' = er
    /\ IF entry = "executeRequest"
       THEN /\ result' = er
            /\ pc' = "done"
            /\ UNCHANGED tierOutcome
       ELSE TierEnds(getQuoteAfterPost(er, slippageOptions[tier]))

\* The catch block of executeRequest.
Catch(error) ==
    /\ tries' = Append(tries, TryFailed(error))
    /\ IF ShouldGiveUp(attempt, retries, error)
       THEN /\ EndCall(Threw(formatError(error)))
            /\ UNCHANGED callSleeps
       ELSE /\ callSleeps' = Append(callSleeps, RetryDelay(attempt))
            /\ pc' = "sleeping"
            /\ UNCHANGED <<erOutcome, tierOutcome, result>>

\* A direct call of executeRequest(method, endpoint, data, customRetries).
ExecuteRequestStart ==
    /\ pc = "start"
    /\ retries' = Retries(customRetries)
    /\ pc' = "attempt"
    /\ UNCHANGED <<inputs, tier, attempt, callReqs, tries, callSleeps, erOutcome,
                   reqLog, tierOutcome, result>>
    /\ UNCHANGED <<quoteVars, swapVars, sellerVars, cacheVars>>

\* The loop head and the try block up to the awaited HTTP call.
IssueRequest ==
    /\ pc = "attempt"
    /\ IF ~LoopCond(attempt, retries)
       THEN /\ EndCall(FellThrough)
            /\ UNCHANGED <<callReqs, tries, callSleeps, reqLog>>
       ELSE IF ~SupportedMethod(method)
       THEN /\ Catch(UnsupportedMethodError)
            /\ UNCHANGED <<callReqs, reqLog>>
       ELSE /\ callReqs' = callReqs + 1
            /\ reqLog' = Append(reqLog,
                   [tier |-> tier, attempt |-> attempt, endpoint |-> endpoint,
                    slippageBps |-> IF tier \in Tiers THEN slippageOptions[tier] ELSE 0,
                    answer |-> "inflight"])
            /\ pc' = "inflight"
            /\ UNCHANGED <<tries, callSleeps, erOutcome, tierOutcome, result>>
    /\ UNCHANGED <<inputs, tier, retries, attempt>>
    /\ UNCHANGED <<quoteVars, swapVars, sellerVars, cacheVars>>

\* What the backend can answer the request in flight with.
OkBodies ==
    IF entry = "executeRequest"
    THEN {EmptyBody, QuoteBody(RawQuote(JsStr("1000"), JsStr("1000")))}
    ELSE IF PlanValid(plan[tier])
    THEN {QuoteBody(WithRoutePlan(RawQuote(JsStr("1000"), JsStr(PlanOut(plan[tier]))),
                                  PlanRoute(plan[tier])))}
    ELSE IF plan[tier] = "malformed"
    THEN MalformedBodies
    ELSE {}

\* The transient failures a backend that has an answer for the tier may show
\* before it, while the client still has a retry left.
Transient(error) ==
    \/ error.code \in {"ECONNRESET", "ENOTFOUND", "ECONNREFUSED", "ECONNABORTED"}
    \/ error.hasResponse /\ error.status \in {408, 429, 500, 502, 503}

ErrorAnswers ==
    IF entry = "executeRequest"
    THEN Failures(endpoint)
    ELSE IF plan[tier] = "error"
    THEN QuoteFailures(endpoint)
    ELSE {e \in QuoteFailures(endpoint) : Transient(e) /\ attempt <= MAX_RETRIES}

\* The awaited HTTP call resolves with a 2xx response.
ResponseOk ==
    /\ pc = "inflight"
    /\ \E body \in OkBodies :
        /\ reqLog' = Answered(reqLog, "ok")
        /\ tries' = Append(tries, TryOk(body))
        /\ EndCall(onSuccess(tries, body))
    /\ UNCHANGED <<inputs, tier, retries, attempt, callReqs, callSleeps>>
    /\ UNCHANGED <<quoteVars, swapVars, sellerVars, cacheVars>>

\* The awaited HTTP call rejects.
ResponseError ==
    /\ pc = "inflight"
    /\ \E error \in ErrorAnswers :
        /\ reqLog' = Answered(reqLog, "error")
        /\ Catch(error)
    /\ UNCHANGED <<inputs, tier, retries, attempt, callReqs>>
    /\ UNCHANGED <<quoteVars, swapVars, sellerVars, cacheVars>>

\* await this.sleep(delay) resolves: the loop goes to the next attempt.
SleepDone ==
    /\ pc = "sleeping"
    /\ attempt' = attempt + 1
    /\ pc' = "attempt"
    /\ UNCHANGED <<inputs, tier, retries, callReqs, tries, callSleeps, erOutcome,
                   reqLog, tierOutcome, result>>
    /\ UNCHANGED <<quoteVars, swapVars, sellerVars, cacheVars>>

(***************************************************************************)
(* JupiterService.getOptimalQuote calling getQuote for the next tier.      *)
(***************************************************************************)
GetQuoteStart ==
    /\ pc = "nextTier"
    /\ tier' = tier + 1
    /\ attempt' = 1
    /\ callReqs' = 0
    /\ tries' = <<>>
    /\ callSleeps' = <<>>
    /\ erOutcome' = Pending
    /\ LET inputProblem == validateMintAddress(inputMint, "inputMint")
           outputProblem == validateMintAddress(outputMint, "outputMint")
           gq == Threw(getQuoteCatch(IF inputProblem # <<>> THEN inputProblem
                                      ELSE outputProblem))
       IN IF inputProblem # <<>> \/ outputProblem # <<>>
          THEN /\ tierOutcome' = [tierOutcome EXCEPT ![tier + 1] = gq]
               /\ pc' = optimalQuoteStep(tier + 1, gq).pc
               /\ result' = optimalQuoteStep(tier + 1, gq).result
               /\ UNCHANGED retries
          ELSE /\ retries' = Retries(NullRetries)
               /\ pc' = "attempt"
               /\ UNCHANGED <<tierOutcome, result>>
    /\ UNCHANGED <<inputs, reqLog>>
    /\ UNCHANGED <<quoteVars, swapVars, sellerVars, cacheVars>>

Next ==
    \/ ExecuteRequestStart
    \/ GetQuoteStart
    \/ IssueRequest
    \/ ResponseOk
    \/ ResponseError
    \/ SleepDone

Spec == Init /\ [][Next]_vars

(***************************************************************************)
(* Direct calls of executeRequest in which every awaited HTTP request and  *)
(* every awaited sleep completes.                                          *)
(***************************************************************************)
InitRequest == Init /\ entry = "executeRequest"

NextRequest ==
    \/ ExecuteRequestStart
    \/ IssueRequest
    \/ ResponseOk
    \/ ResponseError
    \/ SleepDone

FairSpec == InitRequest /\ [][NextRequest]_vars /\ WF_vars(NextRequest)

(***************************************************************************)
(* JupiterService.getQuote on its own, from the point where the backend    *)
(* has answered the quote request with a body that holds a quoteResponse.  *)
(***************************************************************************)
\* The values the backend may put in an amount field.
AmountValues ==
    {Undefined, JsStr("0"), JsStr("-5"), JsStr("150"), JsStr("1000"),
     JsStr("12abc"), JsStr("abc"), JsNum(2000)}

\* The values the backend may put in priceImpactPct.
PriceImpactValues == {Undefined, JsStr("0.1"), JsStr("7.5")}

\* The route plans the backend may put in routePlan.
RoutePlans == {NoRoutePlan, RoutePlan(0), RoutePlan(2)}

QuoteResponses ==
    {[WithRoutePlan(QuoteWith(im, om, ia, oa, pi), rp)
          EXCEPT !.otherAmountThreshold = oat] :
        im \in {JsStr("mintA"), Undefined}, om \in {JsStr("mintB"), JsStr("")},
        ia \in AmountValues, oa \in AmountValues, pi \in PriceImpactValues,
        rp \in RoutePlans, oat \in {Undefined, JsStr("990")}}

\* The slippageBps arguments of the modelled getQuote calls: the three tiers
\* and three values a direct caller passes.
SlippageValues == Range(slippageOptions) \cup {0, 1800, 10000}

InitQuote ==
    /\ CoreIdle("getQuote")
    /\ SwapIdle
    /\ SellerIdle
    /\ CacheIdle
    /\ gqResponse \in QuoteResponses
    /\ gqSlippageBps \in SlippageValues
    /\ gqWarned = FALSE
    /\ gqOutcome = Pending

\* getQuote goes on after await apiClient.post: validateQuote, enhanceQuote,
\* or its catch block.
GetQuoteResponds ==
    /\ entry = "getQuote"
    /\ gqOutcome.kind = "pending"
    /\ gqOutcome' = getQuoteAfterPost(Returned(QuoteBody(gqResponse)), gqSlippageBps)
    /\ gqWarned' = (validateQuote(gqResponse) = <<>> /\ highPriceImpact(gqResponse))
    /\ UNCHANGED <<coreVars, swapVars, sellerVars, cacheVars, gqResponse, gqSlippageBps>>

NextQuote == GetQuoteResponds

SpecQuote == InitQuote /\ [][NextQuote]_vars

(***************************************************************************)
(* executeSwapService (src/jupiter.md): one action per awaited call, with  *)
(* the code that runs from its result to the next awaited call.            *)
(***************************************************************************)
\* quoteResponse.inAmount of the modelled swaps, in base units.
SwapAmounts == {1000000, 150000000, 1000000000}

\* What connection.getBalance may return, in lamports.
Balances == {0, 105000, 109999, 110000, 155000, 160000, 2000000000}

\* What req.body may lack.
SwapRequestShapes == {"valid", "noKey", "noQuoteResponse", "noOutAmount", "zeroInAmount"}

InitSwap ==
    /\ CoreIdle("executeSwapService")
    /\ QuoteIdle
    /\ SellerIdle
    /\ CacheIdle
    /\ swRequest \in SwapRequestShapes
    /\ swInputMint \in {TOKENS_SOL, TOKENS_USDC}
    /\ swInAmount \in SwapAmounts
    /\ swCollectFees \in BOOLEAN
    /\ swPc = "controller"
    /\ swRetries = 0
    /\ swTrace = <<>>
    /\ swFeeAmount = 0
    /\ swFeeResult = NoFeeResult
    /\ swResult = SwapPending

\* An error reaches the outer catch block.
SwapFail(message) ==
    /\ swPc' = "done"
    /\ swResult' = executeSwapCatch(message)

\* executeSwapController up to its call of executeSwapService: a body that
\* fails a guard is answered 400 and the service is not called.
ValidateSwapRequest ==
    /\ swPc = "controller"
    /\ swPc' = IF validateSwapRequest(SwapRequest(swRequest, swInputMint, swInAmount)) # <<>>
              THEN "rejected" ELSE "start"
    /\ UNCHANGED <<coreVars, quoteVars, sellerVars, cacheVars, swapInputs, swRetries, swTrace,
                   swFeeAmount, swFeeResult, swResult>>

\* bs58.decode and Keypair.fromSecretKey, then the call of getSwapTransaction
\* up to its await fetch.
DecodeKey ==
    /\ swPc = "start"
    /\ \E ok \in BOOLEAN :
        /\ swTrace' = Append(swTrace,
                             Step("decodeKey", IF ok THEN "ok" ELSE "throw", 0))
        /\ IF ok
           THEN swPc' = "getSwapTransaction" /\ UNCHANGED swResult
           ELSE SwapFail(<<"Non-base58 character">>)
    /\ UNCHANGED <<coreVars, quoteVars, sellerVars, cacheVars, swapInputs, swRetries, swFeeAmount,
                   swFeeResult>>

\* await fetch in getSwapTransaction settles: with a response that is ok or
\* not ok, whose body is still to be read, or with a rejection.
FetchSettles ==
    /\ swPc = "getSwapTransaction"
    /\ \E settled \in {"ok", "notOk", "rejected"} :
        /\ swTrace' = Append(swTrace, Step("fetch", settled, 0))
        /\ IF settled = "rejected"
           THEN SwapFail(getSwapTransactionCatch("rejected"))
           ELSE swPc' = "readBody" /\ UNCHANGED swResult
    /\ UNCHANGED <<coreVars, quoteVars, sellerVars, cacheVars, swapInputs, swRetries, swFeeAmount,
                   swFeeResult>>

\* What reading the body of the response ends with.  Of a response that is
\* not ok: its text ("throw", the HTTP error) or a rejection.  Of one that is
\* ok: a body whose swapTransaction is a versioned transaction, a legacy one
\* or no transaction at all, a versioned one that transaction.sign rejects
\* and Transaction.from rejects ("unsignable") or accepts
\* ("unsignableLegacy"), a body without swapTransaction, the body null, or a
\* body that is not JSON.
SwapTransactionAnswers(fetched) ==
    IF fetched = "notOk"
    THEN {"throw", "textRejected"}
    ELSE {"versioned", "legacy", "undecodable", "unsignable", "unsignableLegacy",
          "missing", "nullBody", "invalidJson"}

\* await response.text() or await response.json() settles and
\* getSwapTransaction ends; the transaction is deserialized, signed and
\* serialized, and getDynamicPriorityFee is called.
GetSwapTransaction ==
    /\ swPc = "readBody"
    /\ \E answer \in SwapTransactionAnswers(swTrace[Len(swTrace)].outcome),
          serialized \in BOOLEAN :
        IF answer \in {"throw", "textRejected", "invalidJson"}
        THEN /\ swTrace' = Append(swTrace, Step("getSwapTransaction", answer, 0))
             /\ SwapFail(getSwapTransactionCatch(answer))
        ELSE IF answer = "nullBody"
        THEN /\ swTrace' = Append(swTrace, Step("getSwapTransaction", answer, 0))
             /\ SwapFail(<<"Cannot read properties of null (reading 'swapTransaction')">>)
        ELSE IF answer = "missing"
        THEN /\ swTrace' = Append(swTrace, Step("getSwapTransaction", answer, 0))
             /\ SwapFail(<<"No swap transaction returned from Jupiter">>)
        ELSE IF signTransaction(answer) = "throw"
        THEN /\ swTrace' = swTrace \o <<Step("getSwapTransaction", answer, 0),
                                        Step("sign", "throw", 1)>>
             /\ SwapFail(<<"Failed to deserialize transaction">>)
        ELSE /\ swTrace' = swTrace \o
                     <<Step("getSwapTransaction", answer, 0),
                       Step("sign", signTransaction(answer),
                            IF legacyFallback(answer) THEN 1 ELSE 0),
                       Step("serialize", IF serialized THEN "ok" ELSE "throw", 0)>>
             /\ IF serialized
                THEN swPc' = "priorityFee" /\ UNCHANGED swResult
                ELSE SwapFail(<<"Signature verification failed">>)
    /\ UNCHANGED <<coreVars, quoteVars, sellerVars, cacheVars, swapInputs, swRetries, swFeeAmount,
                   swFeeResult>>

\* await getDynamicPriorityFee resolves; retry calls sendRawTransaction.
PriorityFee ==
    /\ swPc = "priorityFee"
    /\ \E ok \in BOOLEAN :
        /\ swTrace' = Append(swTrace,
                   Step("getDynamicPriorityFee", IF ok THEN "ok" ELSE "throw", 0))
        /\ IF ok
           THEN swPc' = "send" /\ UNCHANGED swResult
           ELSE SwapFail(<<"Failed to get priority fee">>)
    /\ UNCHANGED <<coreVars, quoteVars, sellerVars, cacheVars, swapInputs, swRetries, swFeeAmount,
                   swFeeResult>>

\* The sendRawTransaction calls of the trace that failed.
SendFailures(trace) ==
    Cardinality({i \in DOMAIN trace :
        trace[i].op = "sendRawTransaction" /\ trace[i].outcome = "throw"})

\* connection.sendRawTransaction resolves inside retry; with a signature the
\* confirmation loop starts.
SendRawTransaction ==
    /\ swPc = "send"
    /\ \E ok \in BOOLEAN :
        /\ swTrace' = Append(swTrace,
                   Step("sendRawTransaction", IF ok THEN "signature" ELSE "throw", 0))
        /\ IF ok
           THEN /\ swPc' = "confirm"
                /\ UNCHANGED swResult
           ELSE IF retryMayCallAgain(SendFailures(swTrace'))
           THEN /\ swPc' = "send"
                /\ UNCHANGED swResult
           ELSE SwapFail(<<"Failed to send transaction">>)
    /\ UNCHANGED <<coreVars, quoteVars, sellerVars, cacheVars, swapInputs, swRetries, swFeeAmount,
                   swFeeResult>>

\* The code after the confirmation loop, up to its next awaited call.
ConfirmationLoopExit ==
    /\ swPc' = afterConfirmation(swCollectFees)
    /\ swFeeAmount' = IF swCollectFees
                      THEN feeAmountLamports(swInputMint, swInAmount)
                      ELSE swFeeAmount
    /\ UNCHANGED swResult

\* What an attempt of connection.confirmTransaction ends with: a confirmation
\* without error, one with value.err set, or an error.
ConfirmOutcomes == {"confirmed", "err", "throw"}

ConfirmError(outcome) ==
    IF outcome = "err"
    THEN <<"Swap", "transaction failed", "InstructionError">>
    ELSE <<"failed to get info about transaction">>

\* One iteration of the confirmation loop.
ConfirmTransaction ==
    /\ swPc = "confirm"
    /\ \E outcome \in ConfirmOutcomes :
        LET attempted == Step("confirmTransaction", outcome, swRetries + 1)
        IN IF outcome = "confirmed"
           THEN /\ swTrace' = Append(swTrace, attempted)
                /\ ConfirmationLoopExit
                /\ UNCHANGED swRetries
           ELSE /\ swRetries' = swRetries + 1
                /\ UNCHANGED swFeeAmount
                /\ IF afterConfirmCatch(swRetries + 1) = "throw"
                   THEN /\ swTrace' = Append(swTrace, attempted)
                        /\ SwapFail(ConfirmError(outcome))
                   ELSE /\ swTrace' = swTrace \o
                               <<attempted,
                                 Step("delay", "", confirmDelay(swRetries + 1))>>
                        /\ swPc' = "delay"
                        /\ UNCHANGED swResult
    /\ UNCHANGED <<coreVars, quoteVars, sellerVars, cacheVars, swapInputs, swFeeResult>>

\* await delay resolves: the loop condition is tested again.
DelayDone ==
    /\ swPc = "delay"
    /\ IF afterDelay(swRetries) = "exit"
       THEN ConfirmationLoopExit
       ELSE swPc' = afterDelay(swRetries) /\ UNCHANGED <<swFeeAmount, swResult>>
    /\ UNCHANGED <<coreVars, quoteVars, sellerVars, cacheVars, swapInputs, swRetries, swTrace, swFeeResult>>

\* feeResult is set: the code goes on to the final balance query.
FeeEnds(feeResult) ==
    /\ swFeeResult' = feeResult
    /\ swPc' = "finalBalance"

\* await connection.getBalance resolves inside fee collection.
FeeGetBalance ==
    /\ swPc = "feeBalance"
    /\ \/ /\ swTrace' = Append(swTrace, Step("getBalance", "throw", 0))
          /\ FeeEnds(FeeFailed(<<"failed to get balance">>))
       \/ \E userBalance \in Balances :
            /\ swTrace' = Append(swTrace, Step("getBalance", "ok", userBalance))
            /\ IF insufficientBalance(userBalance, swFeeAmount)
               THEN FeeEnds(FeeSkipped(swFeeAmount))
               ELSE swPc' = "feeBlockhash" /\ UNCHANGED swFeeResult
    /\ UNCHANGED <<coreVars, quoteVars, sellerVars, cacheVars, swapInputs, swRetries, swFeeAmount, swResult>>

\* await getRecentBlockhash resolves; the fee transaction is built.
FeeBlockhash ==
    /\ swPc = "feeBlockhash"
    /\ \/ /\ swTrace' = Append(swTrace, Step("getRecentBlockhash", "throw", 0))
          /\ FeeEnds(FeeFailed(<<"failed to get recent blockhash">>))
       \/ /\ swTrace' = swTrace \o <<Step("getRecentBlockhash", "ok", 0),
                                      Step("buildFeeTransaction", "ok", swFeeAmount)>>
          /\ swPc' = "feePriorityFee"
          /\ UNCHANGED swFeeResult
    /\ UNCHANGED <<coreVars, quoteVars, sellerVars, cacheVars, swapInputs, swRetries, swFeeAmount, swResult>>

\* await getDynamicPriorityFee resolves inside fee collection.
FeePriorityFee ==
    /\ swPc = "feePriorityFee"
    /\ \/ /\ swTrace' = Append(swTrace, Step("getDynamicPriorityFee", "throw", 0))
          /\ FeeEnds(FeeFailed(<<"Failed to get priority fee">>))
       \/ /\ swTrace' = Append(swTrace, Step("getDynamicPriorityFee", "ok", 0))
          /\ swPc' = "feeTransfer"
          /\ UNCHANGED swFeeResult
    /\ UNCHANGED <<coreVars, quoteVars, sellerVars, cacheVars, swapInputs, swRetries, swFeeAmount, swResult>>

\* await sendAndConfirmTransactionWrapper resolves.
FeeTransfer ==
    /\ swPc = "feeTransfer"
    /\ \/ /\ swTrace' = Append(swTrace,
                     Step("sendAndConfirmTransactionWrapper", "throw", swFeeAmount))
          /\ FeeEnds(FeeFailed(<<"Transaction failed">>))
       \/ /\ swTrace' = Append(swTrace,
                     Step("sendAndConfirmTransactionWrapper", "signature", swFeeAmount))
          /\ FeeEnds(FeeSuccess(swFeeAmount, "feeSignature"))
    /\ UNCHANGED <<coreVars, quoteVars, sellerVars, cacheVars, swapInputs, swRetries, swFeeAmount, swResult>>

\* await connection.getBalance resolves after fee collection: the call ends.
FinalBalance ==
    /\ swPc = "finalBalance"
    /\ \/ /\ swTrace' = Append(swTrace, Step("finalBalance", "throw", 0))
          /\ SwapFail(<<"failed to get balance">>)
       \/ \E newBalance \in {0, 2000000000} :
            /\ swTrace' = Append(swTrace, Step("finalBalance", "ok", newBalance))
            /\ swPc' = "done"
            /\ swResult' = SwapReturned("signature", swFeeResult)
    /\ UNCHANGED <<coreVars, quoteVars, sellerVars, cacheVars, swapInputs, swRetries, swFeeAmount, swFeeResult>>

NextSwap ==
    \/ ValidateSwapRequest
    \/ DecodeKey
    \/ FetchSettles
    \/ GetSwapTransaction
    \/ PriorityFee
    \/ SendRawTransaction
    \/ ConfirmTransaction
    \/ DelayDone
    \/ FeeGetBalance
    \/ FeeBlockhash
    \/ FeePriorityFee
    \/ FeeTransfer
    \/ FinalBalance

SpecSwap == InitSwap /\ [][NextSwap]_vars

(***************************************************************************)
(* TokenSeller.run: one action for each prompt and each awaited call.      *)
(***************************************************************************)
\* What the token balance request may return.
TokenBalances ==
    {[balance |-> b, decimals |-> d] : b \in {0, 149, 150, 1999, 2000, 20000}, d \in {0, 1}}

\* What the wallet request may return as balanceSol, in units of 1/SolUnits SOL.
SolBalances == {0, 19, 20, 21, 10000}

\* How apiClient.get may end for the wallet request of getWalletInfo: a body
\* with or without publicKey, or an error.
WalletAnswers ==
    {GetOk("wallet", b, NoTokens) : b \in {0, 5}}
        \cup {GetOk("", 5, NoTokens), GetFailed}

\* getWalletInfo(forceRefresh) as a step of the run, with `answer` for what its
\* apiClient.get ends with when it makes one: the two fields it leaves,
\* whether it returns, and its entry in the log of calls.
getWalletInfoInRun(forceRefresh, answer) ==
    LET call == [op |-> "getWalletInfo", forceRefresh |-> forceRefresh, at |-> wsNow]
        cached == useCachedWalletInfo(walletInfo, forceRefresh, lastBalanceCheck, wsNow)
        after == getWalletInfoAfterGet(answer, walletInfo, lastBalanceCheck, wsNow)
    IN IF cached
       THEN [walletInfo |-> walletInfo, lastBalanceCheck |-> lastBalanceCheck,
             ok |-> TRUE,
             ended |-> CacheCallEnded(call, wsNow, FALSE, GetFailed, TRUE,
                                      walletInfo, NoTokens)]
       ELSE [walletInfo |-> after.walletInfo,
             lastBalanceCheck |-> after.lastBalanceCheck,
             ok |-> after.ok,
             ended |-> CacheCallEnded(call, wsNow, TRUE, answer, after.ok,
                                      IF after.ok THEN after.walletInfo
                                      ELSE NoWalletInfo,
                                      NoTokens)]

\* How apiClient.post may end for the swap request.
SwapAnswers ==
    {SwapOk(SwapResponse(JsStr("signature"))), SwapOk(SwapResponse(Undefined)),
     SwapOk(SwapResponse(JsStr("")))}
        \cup {SwapFailed(WithData(HttpError(st, "/jupiter/swap"), BackendMessage(st))) :
                  st \in {400, 500}}
        \cup {SwapFailed(HttpError(502, "/jupiter/swap"))}
        \cup {SwapFailed(TransportError(c, "/jupiter/swap")) :
                  c \in {"ETIMEDOUT", "ECONNABORTED"}}

InitSeller ==
    /\ CoreIdle("TokenSeller.run")
    /\ CacheIdle
    /\ QuoteIdle
    /\ SwapIdle
    /\ tsPc = "validateEnvironment"
    /\ tsState = "INITIALIZING"
    /\ tsPreferences = NoPreferences
    /\ tsAnswers = [config |-> "unasked", swap |-> "unasked"]
    /\ tsBalanceData = NoBalanceData
    /\ tsBalanceSol = 0
    /\ tsCalls = <<>>
    /\ tsQuote = SellerQuote(NoQuote, Undefined)
    /\ tsSwapPosts = <<>>
    /\ tsSwapSleeps = <<>>
    /\ tsSwapAnswer = SwapFailed(NoError)
    /\ tsSwapOutcome = SwapCallPending
    /\ tsSummary = NoSummary
    /\ tsExit = "running"

\* The catch block of run: handleCriticalError ends the process with code 1.
handleCriticalError ==
    /\ tsSummary' = [tsSummary EXCEPT !.success = FALSE]
    /\ tsExit' = "exit1"
    /\ tsPc' = "exited"

\* The run goes on to its next prompt or awaited call.
GoOn(next) ==
    /\ tsPc' = next
    /\ UNCHANGED <<tsSummary, tsExit>>

ValidateEnvironment ==
    /\ tsPc = "validateEnvironment"
    /\ \E overallHealth \in BOOLEAN :
           IF overallHealth
           THEN /\ tsState' = "VALIDATED"
                /\ GoOn("displayWalletInfo")
           ELSE /\ handleCriticalError
                /\ UNCHANGED tsState
    /\ UNCHANGED <<tsPreferences, tsAnswers, tsBalanceData, tsBalanceSol, tsCalls,
                   tsQuote, tsSwapPosts, tsSwapSleeps, tsSwapAnswer, tsSwapOutcome>>
    /\ UNCHANGED <<coreVars, quoteVars, swapVars, cacheVars>>

\* displayWalletInfo: getWalletSummary awaits getWalletInfo(), which fills the
\* cache of the wallet service, and then checkTokenHolding.
DisplayWalletInfo ==
    /\ tsPc = "displayWalletInfo"
    /\ \E answer \in {GetOk("wallet", 10000, NoTokens), GetOk("", 10000, NoTokens),
                        GetFailed},
          held \in BOOLEAN :
           LET info == getWalletInfoInRun(FALSE, answer)
               loaded == info.ok /\ held
           IN /\ walletInfo' = info.walletInfo
              /\ lastBalanceCheck' = info.lastBalanceCheck
              /\ cacheLog' = Append(cacheLog, info.ended)
              /\ tsCalls' = Append(tsCalls,
                     Step("getWalletSummary", IF loaded THEN "ok" ELSE "throw", 0))
              /\ IF loaded THEN GoOn("askTokenAmount") ELSE handleCriticalError
    /\ UNCHANGED <<tsState, tsPreferences, tsAnswers, tsBalanceData, tsBalanceSol,
                   tsQuote, tsSwapPosts, tsSwapSleeps, tsSwapAnswer, tsSwapOutcome>>
    /\ UNCHANGED <<wsNow, wsTicks, supportedTokens, cacheCall>>
    /\ UNCHANGED <<coreVars, quoteVars, swapVars>>

\* getUserPreferences up to the answer to the amount prompt, which is
\* repeated until the answer is a positive number.
AskTokenAmount ==
    /\ tsPc = "askTokenAmount"
    /\ tsState' = "COLLECTING_INPUT"
    /\ \E input \in AmountInputs :
           IF askTokenAmount(input) = 0
           THEN /\ tsPc' = "askTokenAmount"
                /\ UNCHANGED tsPreferences
           ELSE /\ tsPc' = "askPreferences"
                /\ tsPreferences' =
                       [tsPreferences EXCEPT !.tokenAmount = askTokenAmount(input)]
    /\ UNCHANGED <<tsAnswers, tsBalanceData, tsBalanceSol, tsCalls, tsQuote,
                   tsSwapPosts, tsSwapSleeps, tsSwapAnswer, tsSwapOutcome, tsSummary, tsExit>>
    /\ UNCHANGED <<coreVars, quoteVars, swapVars, cacheVars>>

\* askOutputToken, askSellingStrategy and askMaxSlippage.
AskPreferences ==
    /\ tsPc = "askPreferences"
    /\ \E token \in OUTPUT_TOKENS, s \in DOMAIN strategyMap, b \in DOMAIN slippageMap :
           tsPreferences' = [tsPreferences EXCEPT !.outputToken = token,
                                                  !.strategy = strategyMap[s],
                                                  !.maxSlippage = slippageMap[b]]
    /\ tsPc' = "confirmPreferences"
    /\ UNCHANGED <<tsState, tsAnswers, tsBalanceData, tsBalanceSol, tsCalls, tsQuote,
                   tsSwapPosts, tsSwapSleeps, tsSwapAnswer, tsSwapOutcome, tsSummary, tsExit>>
    /\ UNCHANGED <<coreVars, quoteVars, swapVars, cacheVars>>

ConfirmPreferences ==
    /\ tsPc = "confirmPreferences"
    /\ \E confirmed \in BOOLEAN :
           /\ tsAnswers' = [tsAnswers EXCEPT !.config = IF confirmed THEN "yes" ELSE "no"]
           /\ IF ~confirmed
              THEN /\ tsExit' = "exit0"
                   /\ tsPc' = "exited"
              ELSE /\ tsPc' = "validateTokenAmount"
                   /\ UNCHANGED tsExit
    /\ UNCHANGED <<tsState, tsPreferences, tsBalanceData, tsBalanceSol, tsCalls, tsQuote,
                   tsSwapPosts, tsSwapSleeps, tsSwapAnswer, tsSwapOutcome, tsSummary>>
    /\ UNCHANGED <<coreVars, quoteVars, swapVars, cacheVars>>

\* validateUserInputs up to the end of walletService.validateTokenAmount.
ValidateTokenAmount ==
    /\ tsPc = "validateTokenAmount"
    /\ tsState' = "VALIDATING_INPUTS"
    /\ \E fetched \in BOOLEAN, balanceData \in TokenBalances :
           LET problem == validateTokenAmount(tsPreferences.tokenAmount, balanceData)
               passed == fetched /\ problem = <<>>
           IN /\ tsBalanceData' = IF fetched THEN balanceData ELSE tsBalanceData
              /\ tsCalls' = Append(tsCalls,
                     Step("validateTokenAmount", IF passed THEN "ok" ELSE "throw",
                          tsPreferences.tokenAmount))
              /\ IF passed THEN GoOn("validateSolForFees") ELSE handleCriticalError
    /\ UNCHANGED <<tsPreferences, tsAnswers, tsBalanceSol, tsQuote, tsSwapPosts, tsSwapSleeps,
                   tsSwapAnswer, tsSwapOutcome>>
    /\ UNCHANGED <<coreVars, quoteVars, swapVars, cacheVars>>

\* validateUserInputs from there to the end of walletService.validateSolForFees:
\* getSolBalance(true) awaits getWalletInfo(true), which fetches whatever the
\* cache holds and writes it anew.
ValidateSolForFees ==
    /\ tsPc = "validateSolForFees"
    /\ \E answer \in {GetOk("wallet", b, NoTokens) : b \in SolBalances}
                          \cup {GetOk("", 20, NoTokens), GetFailed} :
           LET info == getWalletInfoInRun(TRUE, answer)
               passed == info.ok /\ validateSolForFees(info.walletInfo.balanceSol) = <<>>
           IN /\ walletInfo' = info.walletInfo
              /\ lastBalanceCheck' = info.lastBalanceCheck
              /\ cacheLog' = Append(cacheLog, info.ended)
              /\ tsBalanceSol' = IF info.ok THEN info.walletInfo.balanceSol
                                 ELSE tsBalanceSol
              /\ tsCalls' = Append(tsCalls,
                     Step("validateSolForFees", IF passed THEN "ok" ELSE "throw", 0))
              /\ IF passed THEN GoOn("executeSellingStrategy") ELSE handleCriticalError
    /\ UNCHANGED <<tsState, tsPreferences, tsAnswers, tsBalanceData, tsQuote,
                   tsSwapPosts, tsSwapSleeps, tsSwapAnswer, tsSwapOutcome>>
    /\ UNCHANGED <<wsNow, wsTicks, supportedTokens, cacheCall>>
    /\ UNCHANGED <<coreVars, quoteVars, swapVars>>

\* executeSellingStrategy up to the call its switch makes.
ExecuteSellingStrategy ==
    /\ tsPc = "executeSellingStrategy"
    /\ tsState' = "EXECUTING"
    /\ tsCalls' = Append(tsCalls,
           Step("executeSellingStrategy", executeSellingStrategy(tsPreferences.strategy),
                tsPreferences.tokenAmount))
    /\ IF executeSellingStrategy(tsPreferences.strategy) = "executeImmediateSale"
       THEN GoOn("getOptimalQuote")
       ELSE handleCriticalError
    /\ UNCHANGED <<tsPreferences, tsAnswers, tsBalanceData, tsBalanceSol, tsQuote,
                   tsSwapPosts, tsSwapSleeps, tsSwapAnswer, tsSwapOutcome>>
    /\ UNCHANGED <<coreVars, quoteVars, swapVars, cacheVars>>

\* executeImmediateSale up to the end of jupiterService.getOptimalQuote.
GetOptimalQuote ==
    /\ tsPc = "getOptimalQuote"
    /\ \/ /\ tsCalls' = Append(tsCalls,
                 Step("getOptimalQuote", "throw", tsPreferences.tokenAmount))
          /\ handleCriticalError
          /\ UNCHANGED tsQuote
       \/ /\ tsCalls' = Append(tsCalls,
                 Step("getOptimalQuote", "ok", tsPreferences.tokenAmount))
          /\ \E t \in Tiers, out \in {"1000", "2000"},
                nested \in {Undefined, JsObj("quoteResponse")} :
                 tsQuote' = SellerQuote(
                     enhanceQuote(RawQuote(JsStr("1000"), JsStr(out)), slippageOptions[t]),
                     nested)
          /\ GoOn("confirmSwap")
    /\ UNCHANGED <<tsState, tsPreferences, tsAnswers, tsBalanceData, tsBalanceSol,
                   tsSwapPosts, tsSwapSleeps, tsSwapAnswer, tsSwapOutcome>>
    /\ UNCHANGED <<coreVars, quoteVars, swapVars, cacheVars>>

\* executeImmediateSale: the answer to 'Execute this swap?'.
ConfirmSwap ==
    /\ tsPc = "confirmSwap"
    /\ \E confirmed \in BOOLEAN :
           /\ tsAnswers' = [tsAnswers EXCEPT !.swap = IF confirmed THEN "yes" ELSE "no"]
           /\ tsPc' = IF confirmedSwap(confirmed) THEN "executeSwap"
                      ELSE "displayExecutionSummary"
    /\ UNCHANGED <<tsState, tsPreferences, tsBalanceData, tsBalanceSol, tsCalls, tsQuote,
                   tsSwapPosts, tsSwapSleeps, tsSwapAnswer, tsSwapOutcome, tsSummary, tsExit>>
    /\ UNCHANGED <<coreVars, quoteVars, swapVars, cacheVars>>

\* The executeSwap call has ended with `outcome`: executeImmediateSale
\* records the sale, or the error reaches handleCriticalError.
SwapCallEnds(outcome) ==
    /\ tsSwapOutcome' = outcome
    /\ tsCalls' = Append(tsCalls, Step("executeSwap", outcome.kind, 0))
    /\ IF outcome.kind = "return"
       THEN /\ tsSummary' =
                   [totalTokensSold |-> tsPreferences.tokenAmount,
                    totalReceived |-> parseInt(tsQuote.outAmount).n,
                    transactionCount |-> 1,
                    success |-> TRUE,
                    transactions |-> <<outcome.response>>]
            /\ tsPc' = "displayExecutionSummary"
            /\ UNCHANGED tsExit
       ELSE handleCriticalError

\* executeRequest sends POST /jupiter/swap for its attempt `att`.
SwapPost(att) ==
    [quoteResponse |-> tsQuote.quoteResponse, collectFees |-> TRUE, attempt |-> att]

\* executeImmediateSale calls jupiterService.executeSwap(quote.quoteResponse,
\* true), which throws on an undefined quoteResponse or calls apiClient.post,
\* whose executeRequest sends the first request.
ExecuteSwap ==
    /\ tsPc = "executeSwap"
    /\ IF executeSwap(tsQuote.quoteResponse, tsSwapAnswer).posted
       THEN /\ tsSwapPosts' = Append(tsSwapPosts, SwapPost(1))
            /\ tsPc' = "swapInflight"
            /\ UNCHANGED <<tsCalls, tsSwapOutcome, tsSummary, tsExit>>
       ELSE /\ SwapCallEnds(executeSwap(tsQuote.quoteResponse, tsSwapAnswer))
            /\ UNCHANGED tsSwapPosts
    /\ UNCHANGED <<tsState, tsPreferences, tsAnswers, tsBalanceData, tsBalanceSol,
                   tsQuote, tsSwapSleeps, tsSwapAnswer>>
    /\ UNCHANGED <<coreVars, quoteVars, swapVars, cacheVars>>

\* The request in flight is answered.  executeRequest returns the body, or
\* gives up on the error, and executeSwap goes on; or executeRequest starts
\* the sleep before its next attempt.
SwapResponds ==
    /\ tsPc = "swapInflight"
    /\ \E answer \in SwapAnswers :
        /\ tsSwapAnswer' = answer
        /\ IF answer.ok \/ ShouldGiveUp(Len(tsSwapPosts), Retries(NullRetries), answer.error)
           THEN /\ SwapCallEnds(executeSwap(tsQuote.quoteResponse, answer))
                /\ UNCHANGED tsSwapSleeps
           ELSE /\ tsSwapSleeps' = Append(tsSwapSleeps, RetryDelay(Len(tsSwapPosts)))
                /\ tsPc' = "swapSleeping"
                /\ UNCHANGED <<tsCalls, tsSwapOutcome, tsSummary, tsExit>>
    /\ UNCHANGED <<tsState, tsPreferences, tsAnswers, tsBalanceData, tsBalanceSol,
                   tsQuote, tsSwapPosts>>
    /\ UNCHANGED <<coreVars, quoteVars, swapVars, cacheVars>>

\* await this.sleep(delay) resolves: executeRequest sends the request again.
SwapSleepDone ==
    /\ tsPc = "swapSleeping"
    /\ LoopCond(Len(tsSwapPosts) + 1, Retries(NullRetries))
    /\ tsSwapPosts' = Append(tsSwapPosts, SwapPost(Len(tsSwapPosts) + 1))
    /\ tsPc' = "swapInflight"
    /\ UNCHANGED <<tsState, tsPreferences, tsAnswers, tsBalanceData, tsBalanceSol,
                   tsCalls, tsQuote, tsSwapSleeps, tsSwapAnswer, tsSwapOutcome,
                   tsSummary, tsExit>>
    /\ UNCHANGED <<coreVars, quoteVars, swapVars, cacheVars>>

DisplayExecutionSummary ==
    /\ tsPc = "displayExecutionSummary"
    /\ tsState' = "COMPLETED"
    /\ tsPc' = "exited"
    /\ tsExit' = "completed"
    /\ UNCHANGED <<tsPreferences, tsAnswers, tsBalanceData, tsBalanceSol, tsCalls,
                   tsQuote, tsSwapPosts, tsSwapSleeps, tsSwapAnswer, tsSwapOutcome, tsSummary>>
    /\ UNCHANGED <<coreVars, quoteVars, swapVars, cacheVars>>

NextSeller ==
    \/ ValidateEnvironment
    \/ DisplayWalletInfo
    \/ AskTokenAmount
    \/ AskPreferences
    \/ ConfirmPreferences
    \/ ValidateTokenAmount
    \/ ValidateSolForFees
    \/ ExecuteSellingStrategy
    \/ GetOptimalQuote
    \/ ConfirmSwap
    \/ ExecuteSwap
    \/ SwapResponds
    \/ SwapSleepDone
    \/ DisplayExecutionSummary

SpecSeller == InitSeller /\ [][NextSeller]_vars

(***************************************************************************)
(* Calls of getWalletInfo on one WalletService, one after the other while  *)
(* the clock advances, and calls of getSupportedTokens on one              *)
(* JupiterService.                                                         *)
(***************************************************************************)
MaxWalletCalls == 3
MaxTokenCalls == 4
MaxTicks == 2

\* The clock advances by a millisecond or by just under the cache age.
TickSteps == {1, maxCacheAge - 1}

TokenAnswers ==
    {GetOk("", 0, t) : t \in {"mapA", "mapB", "emptyMap", NoTokens}} \cup {GetFailed}

InitCache ==
    /\ CoreIdle("caches")
    /\ QuoteIdle
    /\ SwapIdle
    /\ SellerIdle
    /\ CacheIdle

Tick ==
    /\ wsTicks < MaxTicks
    /\ wsTicks' = wsTicks + 1
    /\ \E dt \in TickSteps : wsNow' = wsNow + dt
    /\ UNCHANGED <<walletInfo, lastBalanceCheck, supportedTokens, cacheCall, cacheLog>>
    /\ UNCHANGED <<coreVars, quoteVars, swapVars, sellerVars>>

\* getWalletInfo(forceRefresh) up to its return from the cache or its
\* awaited apiClient.get.
GetWalletInfo ==
    /\ cacheCall = NoCacheCall
    /\ Len(cacheLog) < MaxWalletCalls
    /\ \E forceRefresh \in BOOLEAN :
        LET call == [op |-> "getWalletInfo", forceRefresh |-> forceRefresh, at |-> wsNow]
        IN IF useCachedWalletInfo(walletInfo, forceRefresh, lastBalanceCheck, wsNow)
           THEN /\ cacheLog' = Append(cacheLog,
                       CacheCallEnded(call, wsNow, FALSE, GetFailed, TRUE,
                                      walletInfo, NoTokens))
                /\ UNCHANGED cacheCall
           ELSE /\ cacheCall' = call
                /\ UNCHANGED cacheLog
    /\ UNCHANGED <<wsNow, wsTicks, walletInfo, lastBalanceCheck, supportedTokens>>
    /\ UNCHANGED <<coreVars, quoteVars, swapVars, sellerVars>>

\* apiClient.get of getWalletInfo ends and the call with it.
WalletResponds ==
    /\ cacheCall.op = "getWalletInfo"
    /\ \E answer \in WalletAnswers :
        LET after == getWalletInfoAfterGet(answer, walletInfo, lastBalanceCheck, wsNow)
        IN /\ walletInfo' = after.walletInfo
           /\ lastBalanceCheck' = after.lastBalanceCheck
           /\ cacheLog' = Append(cacheLog,
                  CacheCallEnded(cacheCall, wsNow, TRUE, answer, after.ok,
                                 IF after.ok THEN after.walletInfo ELSE NoWalletInfo,
                                 NoTokens))
    /\ cacheCall' = NoCacheCall
    /\ UNCHANGED <<wsNow, wsTicks, supportedTokens>>
    /\ UNCHANGED <<coreVars, quoteVars, swapVars, sellerVars>>

\* getSupportedTokens up to its return from the cache or its awaited
\* apiClient.get.
GetSupportedTokens ==
    /\ cacheCall = NoCacheCall
    /\ Len(cacheLog) < MaxTokenCalls
    /\ LET call == [op |-> "getSupportedTokens", forceRefresh |-> FALSE, at |-> wsNow]
       IN IF useCachedTokens(supportedTokens)
          THEN /\ cacheLog' = Append(cacheLog,
                      CacheCallEnded(call, wsNow, FALSE, GetFailed, TRUE,
                                     NoWalletInfo, supportedTokens))
               /\ UNCHANGED cacheCall
          ELSE /\ cacheCall' = call
               /\ UNCHANGED cacheLog
    /\ UNCHANGED <<wsNow, wsTicks, walletInfo, lastBalanceCheck, supportedTokens>>
    /\ UNCHANGED <<coreVars, quoteVars, swapVars, sellerVars>>

\* apiClient.get of getSupportedTokens ends and the call with it.
TokensRespond ==
    /\ cacheCall.op = "getSupportedTokens"
    /\ \E answer \in TokenAnswers :
        LET after == getSupportedTokensAfterGet(answer, supportedTokens)
        IN /\ supportedTokens' = after.supportedTokens
           /\ cacheLog' = Append(cacheLog,
                  CacheCallEnded(cacheCall, wsNow, TRUE, answer, after.ok,
                                 NoWalletInfo,
                                 IF after.ok THEN after.supportedTokens ELSE NoTokens))
    /\ cacheCall' = NoCacheCall
    /\ UNCHANGED <<wsNow, wsTicks, walletInfo, lastBalanceCheck>>
    /\ UNCHANGED <<coreVars, quoteVars, swapVars, sellerVars>>

NextWallet ==
    \/ Tick
    \/ GetWalletInfo
    \/ WalletResponds

SpecWallet == InitCache /\ [][NextWallet]_vars

NextTokens ==
    \/ GetSupportedTokens
    \/ TokensRespond

SpecTokens == InitCache /\ [][NextTokens]_vars


(***************************************************************************)
(* Properties.                                                             *)
(***************************************************************************)
\* The retry count r of the executeRequest calls of this run: the override
\* if one is given, else MAX_RETRIES.
RetryCount ==
    IF entry = "executeRequest" /\ customRetries # NullRetries
    THEN customRetries
    ELSE MAX_RETRIES

\* The requests of reqLog sent for tier t (0: the direct call).
RequestsOf(t) == {i \in DOMAIN reqLog : reqLog[i].tier = t}

\* The current executeRequest call has ended.
CallEnded == erOutcome.kind # "pending"

\* C1: whatever the backend answers, one call of executeRequest with retry
\* count r issues at most r + 1 HTTP requests.
C1_AtMostRetriesPlusOneRequests ==
    /\ callReqs <= RetryCount + 1
    /\ \A t \in {0} \cup Tiers : Cardinality(RequestsOf(t)) <= RetryCount + 1

\* A call with the override 1 that spent both of its tries on retryable
\* failures.
C1_Witness ==
    /\ entry = "executeRequest"
    /\ customRetries = 1
    /\ callReqs = 2
    /\ erOutcome.kind = "throw"
    /\ Len(tries) = 2
    /\ tries[2].error.status = 503

\* C2: the sleep after try n is RETRY_DELAY * 2^(n-1) ms (2000, 4000, ...);
\* there is one sleep after every try but the one that ends the call, none
\* before the first try and none after the last.
C2_BackoffDelays ==
    /\ \A n \in DOMAIN callSleeps : callSleeps[n] = RETRY_DELAY * 2^(n - 1)
    /\ Len(callSleeps) >= 1 => callSleeps[1] = 2000
    /\ Len(callSleeps) >= 2 => callSleeps[2] = 4000
    /\ pc = "sleeping" => Len(callSleeps) = attempt
    /\ pc \in {"attempt", "inflight"} => Len(callSleeps) = attempt - 1
    /\ CallEnded => Len(callSleeps) = Len(tries) - 1

\* Two 500 answers, then a success on the third try: the sleeps were 2000
\* and 4000 ms.
C2_Witness ==
    /\ erOutcome.kind = "return"
    /\ Len(tries) = 3
    /\ tries[1].error.status = 500
    /\ tries[2].error.status = 500
    /\ callSleeps = <<2000, 4000>>

\* C3: a failure that isRetryableError classifies as non-retryable is the
\* last try of its call: the call throws at once, without a sleep and
\* without another HTTP request.
C3_FatalEndsCall ==
    \A n \in DOMAIN tries :
        (~tries[n].ok /\ ~isRetryableError(tries[n].error)) =>
            /\ n = Len(tries)
            /\ erOutcome.kind = "throw"
            /\ pc \in {"done", "nextTier"}
            /\ inflight = {}
            /\ Len(callSleeps) = n - 1
            /\ callReqs <= n

\* A fatal 404 on the second try, after a retryable 429.
C3_Witness ==
    /\ Len(tries) = 2
    /\ tries[1].error.status = 429
    /\ tries[2].error.status = 404
    /\ erOutcome.kind = "throw"
    /\ callReqs = 2

\* The failures the claim lists as retryable: connection reset, connection
\* refused, host not found, request timeout, HTTP 429, HTTP 408, HTTP >= 500.
ListedRetryable(error) ==
    \/ error.code \in {"ECONNRESET", "ECONNREFUSED", "ENOTFOUND"}
    \/ error.code = "ECONNABORTED"
    \/ error.hasResponse /\ (error.status = 429 \/ error.status = 408
                                \/ error.status >= 500)

\* C4: isRetryableError is true exactly for the listed failures; every
\* other failure the catch block sees is fatal.
C4_RetryableExactlyListed ==
    \A n \in DOMAIN tries :
        ~tries[n].ok =>
            (isRetryableError(tries[n].error) <=> ListedRetryable(tries[n].error))

\* A call that retried after a request timeout and after a 408, and gave up
\* on a 400.
C4_Witness ==
    /\ Len(tries) = 3
    /\ tries[1].error.code = "ECONNABORTED"
    /\ tries[2].error.status = 408
    /\ tries[3].error.status = 400
    /\ Len(callSleeps) = 2
    /\ erOutcome.kind = "throw"

\* C5: a call whose try k succeeds after k - 1 retryable failures returns
\* the body of try k, within r + 1 tries, and its caller sees no error from
\* the earlier failures.
C5_RetryableFailuresAbsorbed ==
    /\ (tries # <<>> /\ tries[Len(tries)].ok) =>
        /\ erOutcome = Returned(tries[Len(tries)].body)
        /\ Len(tries) <= RetryCount + 1
        /\ \A n \in 1..(Len(tries) - 1) :
               ~tries[n].ok /\ ListedRetryable(tries[n].error)
        /\ entry = "executeRequest" => pc = "done" /\ result = erOutcome
        /\ (entry = "getOptimalQuote" /\ PlanValid(plan[tier])) =>
               tierOutcome[tier].kind = "return"
    /\ erOutcome.kind = "return" => (tries # <<>> /\ tries[Len(tries)].ok)

\* With the override 2, two retryable failures and then a success on the
\* third and last try.
C5_Witness ==
    /\ entry = "executeRequest"
    /\ customRetries = 2
    /\ Len(tries) = 3
    /\ tries[1].error.status = 502
    /\ tries[2].error.code = "ECONNRESET"
    /\ tries[3].ok
    /\ result.kind = "return"
    /\ result.body.hasQuoteResponse

\* The error of the try that made the current call give up.
GaveUpOn == tries[Len(tries)].error

\* C6 as stated: the error raised for a failure with an HTTP response
\* carries the status code and the endpoint of the request, for every
\* status; for a transport failure it is a network error.
C6_StatusAndEndpointAlways ==
    (erOutcome.kind = "throw" /\ tries # <<>>) =>
        /\ GaveUpOn.hasResponse =>
               /\ Includes(erOutcome.msg, ToString(GaveUpOn.status))
               /\ Includes(erOutcome.msg, endpoint)
        /\ (~GaveUpOn.hasResponse /\ GaveUpOn.hasRequest) =>
               erOutcome.msg[1] \in {"Network error", "Network timeout"}

\* C6 as amended: the error raised for a failure with an HTTP response
\* carries the status code for every status, and the endpoint of the
\* request exactly when the status is 404; for a transport failure it is a
\* network error.
C6_StatusAlwaysEndpointOn404 ==
    (erOutcome.kind = "throw" /\ tries # <<>>) =>
        /\ GaveUpOn.hasResponse =>
               /\ erOutcome.msg[1] = "HTTP"
               /\ erOutcome.msg[2] = ToString(GaveUpOn.status)
               /\ Includes(erOutcome.msg, endpoint) <=> GaveUpOn.status = 404
        /\ (~GaveUpOn.hasResponse /\ GaveUpOn.hasRequest) =>
               erOutcome.msg[1] \in {"Network error", "Network timeout"}

\* A call that gave up on a 503 after its retries, and raised an error
\* with the status and without the endpoint.
C6_Witness ==
    /\ erOutcome.kind = "throw"
    /\ Len(tries) = 4
    /\ GaveUpOn.status = 503
    /\ erOutcome.msg = <<"HTTP", "503", "Service Unavailable">>

\* The last request sent for tier t.
LastRequestOf(t) == CHOOSE i \in RequestsOf(t) : \A j \in RequestsOf(t) : j <= i

\* C7: a successful quote response without a quoteResponse field makes
\* getQuote fail for that tier, and the answered request is not sent again:
\* it is the last request of the tier, the only one of the tier that was
\* answered successfully, and the only one at all when it was the first try.
C7_MissingQuoteResponseNotRetried ==
    /\ (entry = "getOptimalQuote" /\ tries # <<>> /\ tries[Len(tries)].ok
            /\ ~tries[Len(tries)].body.hasQuoteResponse) =>
        /\ tierOutcome[tier].kind = "throw"
        /\ Includes(tierOutcome[tier].msg,
                    "Invalid response format: missing quoteResponse")
        /\ pc \in {"nextTier", "done"}
        /\ inflight = {}
        /\ callReqs = Len(tries)
        /\ Cardinality(RequestsOf(tier)) = Len(tries)
        /\ reqLog[Len(reqLog)].tier = tier
        /\ Cardinality({i \in RequestsOf(tier) : reqLog[i].answer = "ok"}) = 1
    /\ \A t \in Tiers : \A i \in RequestsOf(t) :
           reqLog[i].answer = "ok" => i = LastRequestOf(t)

\* The first tier's only request was answered with a body without
\* quoteResponse; getQuote failed and the loop moves on.
C7_Witness ==
    /\ entry = "getOptimalQuote"
    /\ tier = 1
    /\ tries = <<TryOk(EmptyBody)>>
    /\ Cardinality(RequestsOf(1)) = 1
    /\ reqLog[1].answer = "ok"
    /\ tierOutcome[1].kind = "throw"
    /\ pc = "nextTier"

\* getOptimalQuote was called with two well-formed mint addresses.
MintsAccepted == inputMint = GoodMint /\ outputMint = WrappedSolMint

\* The first tier, in list order, for which the backend has a valid quote.
FirstValidTier ==
    CHOOSE t \in Tiers : PlanValid(plan[t]) /\ \A u \in 1..(t - 1) : ~PlanValid(plan[u])

\* C8: if the backend has a structurally valid quote for at least one tier,
\* getOptimalQuote returns the quote of the first such tier in list order,
\* whatever the later tiers would have quoted; the failures of the earlier
\* tiers do not reach the caller.
C8_FirstValidTierWins ==
    (entry = "getOptimalQuote" /\ pc = "done" /\ MintsAccepted
        /\ \E t \in Tiers : PlanValid(plan[t])) =>
        /\ result.kind = "return"
        /\ result.msg = <<>>
        /\ result = tierOutcome[FirstValidTier]
        /\ result.quote.slippageBps = <<50, 75, 100>>[FirstValidTier]
        /\ result.quote.outAmount = JsStr(PlanOut(plan[FirstValidTier]))
        /\ \A u \in 1..(FirstValidTier - 1) : tierOutcome[u].kind = "throw"
        /\ \A u \in Tiers : u > FirstValidTier =>
               tierOutcome[u].kind = "pending" /\ RequestsOf(u) = {}

\* The first tier answers a malformed quote, the second a valid quote of
\* 1000 and the third would have quoted 2000: the 75 bps quote is returned.
C8_Witness ==
    /\ entry = "getOptimalQuote"
    /\ pc = "done"
    /\ plan = <<"malformed", "valid1000", "valid2000">>
    /\ tierOutcome[1].kind = "throw"
    /\ result.kind = "return"
    /\ result.quote.slippageBps = 75
    /\ result.quote.outAmount = JsStr("1000")

\* C9: if getQuote failed for every one of the three tiers, getOptimalQuote
\* throws 'No valid quotes received' after the last tier and returns no
\* quote.
C9_AllTiersFailRaises ==
    /\ (entry = "getOptimalQuote" /\ \A t \in Tiers : tierOutcome[t].kind = "throw") =>
        /\ pc = "done"
        /\ tier = 3
        /\ result.kind = "throw"
        /\ result.msg = <<"Failed to get optimal quote", "No valid quotes received">>
        /\ result.quote = NoQuote
    /\ (entry = "getOptimalQuote" /\ pc = "done"
            /\ \A t \in Tiers : ~PlanValid(plan[t])) =>
        /\ result.kind = "throw"
        /\ Includes(result.msg, "No valid quotes received")
        /\ \A t \in Tiers : tierOutcome[t].kind = "throw"

\* A malformed quote for the first tier, a fatal 400 for the second and
\* four 502 answers for the third: no quote is available.
C9_Witness ==
    /\ entry = "getOptimalQuote"
    /\ pc = "done"
    /\ plan = <<"malformed", "error", "error">>
    /\ Cardinality(RequestsOf(2)) = 1
    /\ Cardinality(RequestsOf(3)) = 4
    /\ \A t \in Tiers : tierOutcome[t].kind = "throw"
    /\ result.kind = "throw"
    /\ Includes(result.msg, "No valid quotes received")

\* C10: the tiers are requested one after another in the order 50, 75, 100
\* bps: a request of a tier is sent only when getQuote has failed for every
\* earlier tier, at most one request is in flight, and no request is sent
\* once a tier has returned a quote.
C10_TiersProbedSequentially ==
    entry = "getOptimalQuote" =>
        /\ Cardinality(inflight) <= 1
        /\ \A i \in DOMAIN reqLog :
            /\ reqLog[i].tier \in Tiers
            /\ reqLog[i].slippageBps = <<50, 75, 100>>[reqLog[i].tier]
            /\ \A j \in DOMAIN reqLog : i < j => reqLog[i].tier <= reqLog[j].tier
            /\ \A u \in 1..(reqLog[i].tier - 1) : tierOutcome[u].kind = "throw"
            /\ reqLog[i].answer = "inflight" =>
                   tierOutcome[reqLog[i].tier].kind = "pending"
        /\ \A t \in Tiers :
            tierOutcome[t].kind = "return" =>
                /\ pc = "done"
                /\ inflight = {}
                /\ \A i \in DOMAIN reqLog : reqLog[i].tier <= t

\* The 50 bps tier used up its four tries, the 75 bps tier failed on its
\* first, and the first request of the 100 bps tier is in flight.
C10_Witness ==
    /\ entry = "getOptimalQuote"
    /\ Len(reqLog) = 6
    /\ reqLog[4].tier = 1
    /\ reqLog[5].tier = 2
    /\ reqLog[6].tier = 3
    /\ reqLog[6].slippageBps = 100
    /\ inflight = {6}
(***************************************************************************)
(* Properties of getQuote's validation and enhancement.                    *)
(***************************************************************************)
\* The getQuote call under study has ended.
QuoteCallEnded == entry = "getQuote" /\ gqOutcome.kind # "pending"

\* Whether a field value is written as a number: a number, or a string that
\* is the decimal writing of the integer read from it.
DenotesNumber(v) ==
    \/ v.ty = "number"
    \/ v.ty = "string" /\ v.s \in DOMAIN StrInt /\ ToString(StrInt[v.s]) = v.s

StrictlyPositiveNumber(v) == DenotesNumber(v) /\ parseInt(v).n > 0

\* C11: a quote response is accepted only if its four required fields are
\* present and both amounts are strictly positive numbers; every other
\* response makes validateQuote raise, so that getQuote fails.
C11_OnlyWellFormedQuotesAccepted ==
    QuoteCallEnded =>
        (gqOutcome.kind = "return" =>
            /\ \A i \in DOMAIN requiredFields :
                   gqResponse[requiredFields[i]].ty # "undefined"
            /\ StrictlyPositiveNumber(gqResponse.inAmount)
            /\ StrictlyPositiveNumber(gqResponse.outAmount))

\* The quote under study with a price impact below the threshold.
LowImpactTwin == [gqResponse EXCEPT !.priceImpactPct = JsStr("0.1")]

\* C12: a quote with a price impact above MAX_PRICE_IMPACT_PCT is accepted or
\* rejected exactly as the same quote with a price impact below it, with the
\* same error when rejected; when accepted, the warning is logged.
C12_HighPriceImpactOnlyWarns ==
    (QuoteCallEnded /\ highPriceImpact(gqResponse)) =>
        LET twin == getQuoteAfterPost(Returned(QuoteBody(LowImpactTwin)),
                                      gqSlippageBps)
        IN /\ gqOutcome.kind = twin.kind
           /\ gqOutcome.msg = twin.msg
           /\ gqOutcome.kind = "return" => gqWarned

C12_Witness ==
    /\ QuoteCallEnded
    /\ highPriceImpact(gqResponse)
    /\ gqOutcome.kind = "return"
    /\ gqWarned
    /\ gqOutcome.quote.priceImpactPct.tenths > 10 * MAX_PRICE_IMPACT_PCT

\* C13: a returned quote with a positive integer outAmount and a slippageBps
\* in 0..10000 has minimumOutput = floor(outAmount * (10000 - slippageBps)
\* / 10000), computed in exact integer arithmetic.
C13_MinimumOutputExact ==
    (/\ QuoteCallEnded
     /\ gqOutcome.kind = "return"
     /\ StrictlyPositiveNumber(gqResponse.outAmount)
     /\ gqSlippageBps \in 0..10000) =>
        gqOutcome.quote.minimumOutput =
            [nan |-> FALSE,
             n |-> (parseInt(gqResponse.outAmount).n * (10000 - gqSlippageBps))
                       \div 10000]

(***************************************************************************)
(* Properties of executeSwapService.                                       *)
(***************************************************************************)
\* The steps of the trace that are calls of op.
StepsOf(op) == {i \in DOMAIN swTrace : swTrace[i].op = op}

ConfirmAttempts == StepsOf("confirmTransaction")

\* No confirmation attempt made so far has succeeded.
NeverConfirmed ==
    \A i \in ConfirmAttempts : swTrace[i].outcome # "confirmed"

InConfirmationLoop == swPc \in {"confirm", "delay"}

\* C14: the confirmation loop never makes a sixth attempt; while it runs,
\* every attempt made has failed and fewer than 5 were made, so that it cannot
\* go round indefinitely; and a call whose confirmation never succeeds ends
\* after exactly 5 attempts, failing with the error of the last one.
C14_ConfirmationGivesUpAfterFive ==
    /\ Cardinality(ConfirmAttempts) <= 5
    /\ InConfirmationLoop =>
            /\ NeverConfirmed
            /\ swRetries = Cardinality(ConfirmAttempts)
            /\ swRetries < 5
    /\ (swPc = "done" /\ ConfirmAttempts # {} /\ NeverConfirmed) =>
            /\ Cardinality(ConfirmAttempts) = 5
            /\ swResult.kind = "throw"
            /\ swResult.msg = <<"Failed to execute swap">>
                   \o ConfirmError(swTrace[Len(swTrace)].outcome)

C14_Witness ==
    /\ swPc = "done"
    /\ NeverConfirmed
    /\ Cardinality(ConfirmAttempts) = 5
    /\ swTrace[Len(swTrace)].op = "confirmTransaction"
    /\ swResult.kind = "throw"

\* C15: a confirmation attempt that returns an on-chain execution error
\* (confirmation.value.err set) ends the call at once with a failure: no
\* confirmation attempt and no delay follow it.
C15_OnChainErrorFailsImmediately ==
    \A i \in ConfirmAttempts :
        swTrace[i].outcome = "err" =>
            /\ i = Len(swTrace)
            /\ swPc = "done"
            /\ swResult.kind = "throw"

SendSteps == StepsOf("sendRawTransaction")

\* The call has got past the submission of the swap transaction.
Submitted == \E i \in SendSteps : swTrace[i].outcome = "signature"

FeeOps ==
    {"getBalance", "getRecentBlockhash", "getDynamicPriorityFee",
     "sendAndConfirmTransactionWrapper"}

\* A call made inside fee collection has failed.
FeeStepFailed ==
    \E i \in DOMAIN swTrace :
        /\ swTrace[i].op \in FeeOps
        /\ swTrace[i].outcome = "throw"
        /\ \E j \in ConfirmAttempts : j < i

\* C17: whatever fails inside fee collection, feeResult gets status 'failed'
\* and the call returns the swap's transaction id with that feeCollection.
C17_FeeFailureNeverFailsSwap ==
    FeeStepFailed =>
        /\ swFeeResult.status = "failed"
        /\ swPc = "done" =>
               /\ swResult.kind = "return"
               /\ swResult.transactionId = "signature"
               /\ swResult.feeCollection.status = "failed"

\* Fee collection has computed its fee.
FeeComputed ==
    /\ swCollectFees
    /\ \E i \in ConfirmAttempts : swTrace[i].outcome = "confirmed"

Max(a, b) == IF a >= b THEN a ELSE b

\* The steps that build and submit the fee transfer.
FeeTransferSteps ==
    StepsOf("buildFeeTransaction") \cup StepsOf("sendAndConfirmTransactionWrapper")

\* C18: for every input amount and every input asset the fee computed, and
\* the amount of the fee transfer, is max(100000, floor(inAmount * 0.1%)).
C18_FeeIsMaxOfFloorAndRate ==
    FeeComputed =>
        /\ swFeeAmount = Max(100000, swInAmount \div 1000)
        /\ \A i \in FeeTransferSteps :
               swTrace[i].arg = Max(100000, swInAmount \div 1000)

\* The balance queries of fee collection that returned a balance.
FeeBalanceSteps == {i \in StepsOf("getBalance") : swTrace[i].outcome = "ok"}

\* C19: with a balance below feeAmount + 10000 fee collection ends with
\* status 'skipped' and no fee transfer is built or submitted; a fee transfer
\* is built or submitted only after a balance of at least feeAmount + 10000.
C19_InsufficientBalanceSkipsFee ==
    /\ \A i \in FeeBalanceSteps :
           swTrace[i].arg < swFeeAmount + 10000 =>
               /\ swFeeResult.status = "skipped"
               /\ FeeTransferSteps = {}
               /\ StepsOf("getRecentBlockhash") = {}
    /\ \A t \in FeeTransferSteps :
           \E i \in FeeBalanceSteps :
               i < t /\ swTrace[i].arg >= swFeeAmount + 10000

C19_Witness ==
    /\ swFeeResult.status = "skipped"
    /\ swFeeAmount = 100000
    /\ \E i \in FeeBalanceSteps : swTrace[i].arg = 109999
    /\ swResult.kind = "return"

\* Step i failed, and no sendRawTransaction call came before it.
FailedBeforeSubmission(i) ==
    /\ \A s \in SendSteps : i < s
    /\ \/ swTrace[i].outcome = "throw"
       \/ /\ swTrace[i].op = "getSwapTransaction"
          /\ swTrace[i].outcome \in {"missing", "nullBody", "undecodable",
                                     "unsignable", "textRejected", "invalidJson"}
       \/ swTrace[i] = Step("fetch", "rejected", 0)

\* C20: a failure of a step before submission ends the call with an error
\* thrown to the caller; no transaction was sent and no step of fee
\* collection was made.
C20_PreSubmissionFailurePropagates ==
    \A i \in DOMAIN swTrace :
        FailedBeforeSubmission(i) =>
            /\ swPc = "done"
            /\ swResult.kind = "throw"
            /\ Len(swResult.msg) > 1
            /\ swResult.msg[1] = "Failed to execute swap"
            /\ SendSteps = {}
            /\ \A j \in DOMAIN swTrace : j > i => swTrace[j].op = "sign"
            /\ swFeeResult = NoFeeResult

C20_Witness ==
    /\ swPc = "done"
    /\ swTrace[Len(swTrace)] = Step("getDynamicPriorityFee", "throw", 0)
    /\ SendSteps = {}
    /\ swResult.kind = "throw"

\* C21: a call that fails after the transaction was submitted answers the
\* caller with the signature of the submitted transaction, in the result or
\* in the error, which no failure before submission does.
C21_ConfirmingFailureNamesTransaction ==
    (swPc = "done" /\ swResult.kind = "throw" /\ Submitted /\ NeverConfirmed) =>
        LET body == SwapRequest(swRequest, swInputMint, swInAmount)
        IN \/ executeSwapController(body, swResult).transactionId = "signature"
           \/ Includes(executeSwapController(body, swResult).error, "signature")

\* The state of the swap that step i of the trace belongs to.
StepRank(i) ==
    LET op == swTrace[i].op
    IN IF op = "decodeKey" THEN 1
       ELSE IF op \in {"fetch", "getSwapTransaction"} THEN 2
       ELSE IF op \in {"sign", "serialize"} THEN 3
       ELSE IF op = "sendRawTransaction" THEN 4
       ELSE IF op \in {"confirmTransaction", "delay"} THEN 5
       ELSE IF op = "getDynamicPriorityFee" /\ \A j \in SendSteps : i < j THEN 4
       ELSE 6

\* Whether step i lets the swap go on to the next state.
StepSucceeded(i) ==
    swTrace[i].outcome \in
        CASE StepRank(i) = 1 -> {"ok"}
          [] swTrace[i].op = "fetch" -> {}
          [] StepRank(i) = 2 -> {"versioned", "legacy", "undecodable",
                                 "unsignable", "unsignableLegacy"}
          [] swTrace[i].op = "sign" -> {"versioned", "legacy"}
          [] swTrace[i].op = "serialize" -> {"ok"}
          [] StepRank(i) = 4 -> {"ok", "signature"}
          [] StepRank(i) = 5 -> {"confirmed"}
          [] OTHER -> {}

\* C22: the steps of a call go through REQUESTED (1), TX_OBTAINED (2),
\* SIGNED (3), SUBMITTED (4), CONFIRMING (5) in this order, each state entered
\* from the one before it after a step of that one succeeded; the steps after
\* CONFIRMING (6) come only after a confirmation attempt without error; and a
\* call ends either returning, which it does only when confirmed, or throwing.
C22_SwapStatesInOrder ==
    /\ swTrace # <<>> => StepRank(1) = 1
    /\ \A i \in DOMAIN swTrace :
           i > 1 =>
               \/ /\ StepRank(i) = StepRank(i - 1)
                  /\ swTrace[i].op = "serialize" =>
                         swTrace[i - 1].op = "sign" /\ StepSucceeded(i - 1)
                  /\ swTrace[i].op = "getSwapTransaction" =>
                         swTrace[i - 1].op = "fetch"
                             /\ swTrace[i - 1].outcome \in {"ok", "notOk"}
               \/ /\ StepRank(i) = StepRank(i - 1) + 1
                  /\ StepSucceeded(i - 1)
                  /\ swTrace[i - 1].op # "sign"
    /\ swPc \in {"feeBalance", "feeBlockhash", "feePriorityFee", "feeTransfer",
                  "finalBalance"} => ~NeverConfirmed
    /\ swPc = "done" =>
           /\ swResult.kind \in {"return", "throw"}
           /\ swResult.kind = "return" => ~NeverConfirmed

C22_Witness ==
    /\ swPc = "done"
    /\ swResult.kind = "return"
    /\ {StepRank(i) : i \in DOMAIN swTrace} = 1..6
    /\ Cardinality(ConfirmAttempts) = 2

\* The steps of fee collection: its balance pre-check and its transfer.
FeeSteps ==
    StepsOf("getBalance") \cup StepsOf("getRecentBlockhash") \cup FeeTransferSteps

\* C23: a step of fee collection is made only when collectFees is true and
\* after a confirmation attempt of the swap succeeded; with collectFees
\* false there is no such step and the feeCollection of the result is null.
C23_FeeOnlyAfterConfirmationAndIfAsked ==
    /\ \A i \in FeeSteps :
           /\ swCollectFees
           /\ \E j \in ConfirmAttempts : j < i /\ swTrace[j].outcome = "confirmed"
    /\ ~swCollectFees =>
           /\ FeeSteps = {}
           /\ swFeeResult = NoFeeResult
           /\ swResult.kind = "return" => swResult.feeCollection.status = "null"

C23_Witness ==
    /\ swCollectFees
    /\ swResult.kind = "return"
    /\ swResult.feeCollection.status = "success"
    /\ Cardinality(ConfirmAttempts) = 2
    /\ \E i \in StepsOf("sendAndConfirmTransactionWrapper") :
           swTrace[i].outcome = "signature"

\* getOptimalQuote has called getQuote at least once.
GetQuoteCalled == entry = "getOptimalQuote" /\ tier >= 1

\* The argument of getQuote that validateMintAddress rejects first.
InvalidField ==
    IF validateMintAddress(inputMint, "inputMint") # <<>> THEN "inputMint"
    ELSE IF validateMintAddress(outputMint, "outputMint") # <<>> THEN "outputMint"
    ELSE ""

\* C28: a getQuote call with a mint address that fails validateMintAddress
\* throws an error whose message says "Invalid" and the name of that
\* argument, and sends no HTTP request.
C28_InvalidMintNamedAndNothingSent ==
    \A t \in Tiers :
        (GetQuoteCalled /\ InvalidField # "" /\ tierOutcome[t].kind # "pending") =>
            /\ tierOutcome[t].kind = "throw"
            /\ Includes(tierOutcome[t].msg, "Invalid")
            /\ Includes(tierOutcome[t].msg, InvalidField)
            /\ reqLog = <<>>

\* A non-empty base58 string of 44 characters, or the wrapped SOL address.
WellFormedMint(address) ==
    /\ address.isString
    /\ address.len > 0
    /\ address.base58
    /\ address.len = 44 \/ address.isWrappedSOL

\* C29: on each mint address a getQuote call is given, validateMintAddress
\* returns without error exactly if the address is a non-empty base58 string
\* of 44 characters or the wrapped SOL address, and isMintAddressFormat and
\* analyzeMintAddress give that same verdict.
C29_MintFormatVerdictsAgree ==
    GetQuoteCalled =>
        /\ (validateMintAddress(inputMint, "inputMint") = <<>>)
               = WellFormedMint(inputMint)
        /\ (validateMintAddress(outputMint, "outputMint") = <<>>)
               = WellFormedMint(outputMint)
        /\ \A address \in {inputMint, outputMint} :
               /\ isMintAddressFormat(address) = WellFormedMint(address)
               /\ analyzeMintAddress(address).valid = WellFormedMint(address)

C29_Witness ==
    /\ GetQuoteCalled
    /\ pc = "done"
    /\ inputMint = ShortMint
    /\ outputMint = WrappedSolMint
    /\ result.kind = "throw"
    /\ ~isMintAddressFormat(inputMint)
    /\ isMintAddressFormat(outputMint)

\* The calls of tsCalls to the service method op.
CallsOf(op) == {i \in DOMAIN tsCalls : tsCalls[i].op = op}

\* The user has answered the swap prompt with yes and the sale has ended.
SaleConfirmedAndEnded ==
    tsAnswers.swap = "yes" /\ tsPc \in {"displayExecutionSummary", "exited"}

\* C24: once the user has confirmed the quote, the run has sent a POST
\* /jupiter/swap, every one with fee collection enabled and with the quote
\* getOptimalQuote returned as its quoteResponse, and if the answer holds a transaction id the
\* summary is successful with one transaction.
C24_ConfirmedSaleSendsReturnedQuote ==
    SaleConfirmedAndEnded =>
        /\ tsSwapPosts # <<>>
        /\ \A i \in DOMAIN tsSwapPosts :
               /\ tsSwapPosts[i].collectFees
               /\ tsSwapPosts[i].quoteResponse = tsQuote
        /\ (tsSwapAnswer.ok /\ ~Falsy(tsSwapAnswer.body.transactionId)) =>
               /\ tsSummary.success
               /\ tsSummary.transactionCount = 1
               /\ Len(tsSummary.transactions) = 1

\* C25: a swap request is sent only after the user said yes to the
\* configuration summary and to the quote; after a no to the quote the sale
\* ends without executeSwap being called, without a swap request and with the
\* summary not successful, and the run goes on to its summary.
C25_NoSwapWithoutBothConfirmations ==
    /\ (tsSwapPosts # <<>> \/ CallsOf("executeSwap") # {}) =>
           tsAnswers.config = "yes" /\ tsAnswers.swap = "yes"
    /\ tsAnswers.swap = "no" =>
           /\ tsSwapPosts = <<>>
           /\ CallsOf("executeSwap") = {}
           /\ ~tsSummary.success
           /\ tsPc \in {"displayExecutionSummary", "exited"}
           /\ tsPc = "exited" => tsExit = "completed"

C25_Witness ==
    /\ tsAnswers.config = "yes"
    /\ tsAnswers.swap = "no"
    /\ tsQuote.quoteResponse.ty = "object"
    /\ tsPc = "exited"
    /\ tsExit = "completed"

\* One of the two validations of validateUserInputs has failed.
ValidationFailed ==
    \E i \in CallsOf("validateTokenAmount") \cup CallsOf("validateSolForFees") :
        tsCalls[i].outcome = "throw"

\* C26: getOptimalQuote is called only after validateTokenAmount and
\* validateSolForFees both returned, the amount being positive and at most
\* the token balance and the SOL balance at least 0.002; when one of them
\* fails the run ends in handleCriticalError with no quote and no swap request.
C26_QuoteOnlyAfterBothValidations ==
    /\ \A q \in CallsOf("getOptimalQuote") :
           /\ \E i \in CallsOf("validateTokenAmount") :
                  i < q /\ tsCalls[i].outcome = "ok"
           /\ \E i \in CallsOf("validateSolForFees") :
                  i < q /\ tsCalls[i].outcome = "ok"
           /\ tsPreferences.tokenAmount > 0
           /\ tsBalanceData.balance
                  >= tsPreferences.tokenAmount * Pow10(tsBalanceData.decimals)
           /\ 1000 * tsBalanceSol >= 2 * SolUnits
    /\ ValidationFailed =>
           /\ tsPc = "exited"
           /\ tsExit = "exit1"
           /\ ~tsSummary.success
           /\ CallsOf("getOptimalQuote") = {}
           /\ CallsOf("executeSwap") = {}
           /\ tsSwapPosts = <<>>

C26_Witness ==
    /\ \E i \in CallsOf("validateTokenAmount") : tsCalls[i].outcome = "ok"
    /\ \E i \in CallsOf("validateSolForFees") : tsCalls[i].outcome = "throw"
    /\ tsBalanceSol = 19
    /\ tsExit = "exit1"

\* C27: with the strategy 'gradual' or 'optimal' executeSellingStrategy calls
\* executeImmediateSale as it does for 'immediate': the next call is one
\* getOptimalQuote for the whole amount, and the run makes at most one quote
\* call and one executeSwap call, whose requests all carry the one quote.
C27_FallbackStrategiesSellImmediately ==
    tsPreferences.strategy \in {"immediate", "gradual", "optimal"} =>
        /\ \A i \in CallsOf("executeSellingStrategy") :
               /\ tsCalls[i].outcome = "executeImmediateSale"
               /\ i < Len(tsCalls) =>
                      /\ tsCalls[i + 1].op = "getOptimalQuote"
                      /\ tsCalls[i + 1].arg = tsPreferences.tokenAmount
        /\ Cardinality(CallsOf("executeSellingStrategy")) <= 1
        /\ Cardinality(CallsOf("getOptimalQuote")) <= 1
        /\ Cardinality(CallsOf("executeSwap")) <= 1
        /\ \A i \in DOMAIN tsSwapPosts :
               tsSwapPosts[i] = SwapPost(tsSwapPosts[i].attempt)

C27_Witness ==
    /\ tsPreferences.strategy = "gradual"
    /\ tsPc = "exited"
    /\ tsSummary.success
    /\ tsSwapPosts # <<>>

\* C30: executeSwap returns only when the request was answered with a body
\* that holds a transactionId, and then returns that body; it throws when
\* the request fails and when the answer holds no transactionId.
C30_SwapResponseNeedsTransactionId ==
    tsSwapOutcome.kind # "pending" =>
        /\ tsSwapOutcome.kind \in {"return", "throw"}
        /\ tsSwapOutcome.kind = "return" =>
               /\ tsSwapOutcome.posted
               /\ tsSwapAnswer.ok
               /\ ~Falsy(tsSwapAnswer.body.transactionId)
               /\ tsSwapOutcome.response = tsSwapAnswer.body
        /\ (tsSwapOutcome.posted
                /\ (~tsSwapAnswer.ok \/ Falsy(tsSwapAnswer.body.transactionId))) =>
               /\ tsSwapOutcome.kind = "throw"
               /\ tsSwapOutcome.msg # <<>>

C30_Witness ==
    /\ tsSwapOutcome.kind = "throw"
    /\ tsSwapOutcome.posted
    /\ tsSwapAnswer.ok
    /\ tsSwapAnswer.body.transactionId = Undefined

\* The failed confirmation attempts among the steps before step i.
FailedConfirmsBefore(i) ==
    Cardinality({j \in ConfirmAttempts : j < i /\ swTrace[j].outcome # "confirmed"})

\* C33: each sleep of the confirmation loop comes right after a failed
\* confirmation attempt, the k-th one with k in 1..4, and lasts 2000, 4000,
\* 8000, 16000 ms for k = 1, 2, 3, 4; no sleep follows a confirmed attempt or
\* the fifth failed one.
C33_ConfirmationBackoff ==
    /\ \A i \in StepsOf("delay") :
           /\ i > 1
           /\ swTrace[i - 1].op = "confirmTransaction"
           /\ swTrace[i - 1].outcome # "confirmed"
           /\ FailedConfirmsBefore(i) \in 1..4
           /\ swTrace[i].arg = <<2000, 4000, 8000, 16000>>[FailedConfirmsBefore(i)]
    /\ \A j \in ConfirmAttempts :
           IF swTrace[j].outcome # "confirmed" /\ FailedConfirmsBefore(j + 1) <= 4
           THEN j < Len(swTrace) /\ swTrace[j + 1].op = "delay"
           ELSE j < Len(swTrace) => swTrace[j + 1].op # "delay"

C33_Witness ==
    /\ swPc = "done"
    /\ swResult.kind = "throw"
    /\ Cardinality(StepsOf("delay")) = 4
    /\ Cardinality(ConfirmAttempts) = 5
    /\ swTrace[Len(swTrace)].op = "confirmTransaction"

\* C34: the legacy format is tried only for a payload that does not
\* deserialize as a versioned transaction; a payload that does and is signed
\* goes on as versioned; when signing it fails the call fails without the
\* legacy format being tried.
C34_LegacyOnlyWhenDeserializeFails ==
    \A i \in StepsOf("sign") :
        LET payload == swTrace[i - 1].outcome
        IN /\ swTrace[i].arg = 1 => payload \in {"legacy", "undecodable"}
           /\ payload = "versioned" => swTrace[i].outcome = "versioned"
           /\ payload \in {"unsignable", "unsignableLegacy"} =>
                  /\ swTrace[i].outcome = "throw"
                  /\ swTrace[i].arg = 0

\* C37: a call whose swap transaction was confirmed ends by returning a
\* result with the signature of the swap as transactionId.
C37_ConfirmedSwapAlwaysReturns ==
    (swPc = "done" /\ ~NeverConfirmed) =>
        /\ swResult.kind = "return"
        /\ swResult.transactionId = "signature"

\* C40: in a result returned with collectFees true, feeCollection.status is
\* success, failed or skipped; feeCollection has a transactionId exactly when
\* the status is success; with status failed feeAmount is 0.
C40_FeeCollectionShape ==
    (swPc = "done" /\ swResult.kind = "return" /\ swCollectFees) =>
        /\ swResult.feeCollection.status \in {"success", "failed", "skipped"}
        /\ (swResult.feeCollection.transactionId # "")
               = (swResult.feeCollection.status = "success")
        /\ swResult.feeCollection.status = "failed" =>
               swResult.feeCollection.feeAmount.num = 0

C40_Witness ==
    /\ swPc = "done"
    /\ swResult.kind = "return"
    /\ swCollectFees
    /\ swResult.feeCollection.status = "failed"
    /\ swResult.feeCollection.feeAmount.num = 0
    /\ \E i \in FeeTransferSteps : swTrace[i].outcome = "throw"

\* The fields enhanceQuote adds to those of the quoteResponse.
DerivedFields == {"slippageBps", "price", "minimumOutput", "routeLength"}

\* C35 as stated: the quote getOptimalQuote returns carries the slippage of
\* the tier whose request produced it and the inputMint, outputMint, inAmount
\* and outAmount of the quoteResponse the backend answered that request with,
\* and enhancement only adds fields: every field of that quoteResponse is in
\* the returned quote with the value the backend gave it.
C35_EnhancementOnlyAdds ==
    (entry = "getOptimalQuote" /\ pc = "done" /\ result.kind = "return") =>
        LET backend == tries[Len(tries)].body.quote
        IN /\ result.quote.slippageBps = slippageOptions[tier]
           /\ \A field \in DOMAIN backend : result.quote[field] = backend[field]

\* C35 as amended: the returned quote carries the slippage of the tier whose
\* request produced it, which is the slippage that request was sent with;
\* its priceImpactPct is the backend's parsed to a number (0 when absent);
\* every other field of the backend's quoteResponse, inputMint, outputMint,
\* inAmount and outAmount among them, is returned as the backend gave it; and
\* the fields added are price, minimumOutput and routeLength, derived from
\* the backend's amounts and route plan.
C35_ReturnedQuoteKeepsBackendFields ==
    (entry = "getOptimalQuote" /\ pc = "done" /\ result.kind = "return") =>
        LET backend == tries[Len(tries)].body.quote
            request == reqLog[Len(reqLog)]
        IN /\ tier \in Tiers
           /\ request.tier = tier
           /\ request.answer = "ok"
           /\ result.quote.slippageBps = slippageOptions[tier]
           /\ result.quote.slippageBps = request.slippageBps
           /\ \A field \in DOMAIN backend \ {"priceImpactPct"} :
                  result.quote[field] = backend[field]
           /\ result.quote.priceImpactPct
                  = parseFloat(IF Falsy(backend.priceImpactPct) THEN JsNum(0)
                               ELSE backend.priceImpactPct)
           /\ DOMAIN result.quote = DOMAIN backend \cup DerivedFields
           /\ result.quote.price = calculatePrice(backend)
           /\ result.quote.minimumOutput
                  = calculateMinimumOutput(backend, slippageOptions[tier])
           /\ result.quote.routeLength = routeLength(backend)

C35_Witness ==
    /\ entry = "getOptimalQuote"
    /\ pc = "done"
    /\ result.kind = "return"
    /\ tier = Len(slippageOptions)
    /\ result.quote.slippageBps = MAX_SLIPPAGE_BPS
    /\ result.quote.outAmount = JsStr("2000")
    /\ result.quote.routeLength = 2
    /\ result.quote.routePlan = RoutePlan(2)
    /\ result.quote.otherAmountThreshold = JsStr("990")
    /\ tries[Len(tries)].body.quote.priceImpactPct = JsStr("0.1")
    /\ result.quote.priceImpactPct = parseFloat(JsStr("0.1"))
    /\ Len(tries) > 1

\* C36: one call of getOptimalQuote sends at most 3 * (MAX_RETRIES + 1)
\* requests; the requests of a tier are consecutive, are the attempts 1, 2, ...
\* of one call, and number at most MAX_RETRIES + 1.
C36_QuoteRequestsBounded ==
    entry = "getOptimalQuote" =>
        /\ Len(reqLog) <= Len(slippageOptions) * (MAX_RETRIES + 1)
        /\ \A t \in Tiers :
               /\ Cardinality(RequestsOf(t)) <= MAX_RETRIES + 1
               /\ \A i \in RequestsOf(t) :
                      /\ reqLog[i].endpoint = "/jupiter/quote"
                      /\ IF reqLog[i].attempt = 1
                         THEN \A j \in RequestsOf(t) : j >= i
                         ELSE /\ i - 1 \in RequestsOf(t)
                              /\ reqLog[i - 1].attempt = reqLog[i].attempt - 1

C36_Witness ==
    /\ entry = "getOptimalQuote"
    /\ pc = "done"
    /\ Len(reqLog) = Len(slippageOptions) * (MAX_RETRIES + 1)
    /\ \A t \in Tiers : Cardinality(RequestsOf(t)) = MAX_RETRIES + 1

\* C32: when every awaited request and sleep completes, a direct call of
\* executeRequest ends, and it ends by returning a body or by throwing.
C32_ExecuteRequestTerminates ==
    (entry = "executeRequest") =>
        <>(pc = "done" /\ result.kind \in {"return", "throw"})

C32_Witness ==
    /\ entry = "executeRequest"
    /\ pc = "done"
    /\ result.kind = "throw"
    /\ retries = MAX_RETRIES
    /\ Len(callSleeps) = MAX_RETRIES
    /\ callReqs = MAX_RETRIES + 1

\* C38: a run of TokenSeller, which makes at most one sale, sends at most
\* one POST /jupiter/swap request.
C38_SwapPostedAtMostOnce == Len(tsSwapPosts) <= 1

\* The calls of `op` that have ended, and those among them before call i
\* that fetched with success.
CacheCallsOf(op) == {i \in DOMAIN cacheLog : cacheLog[i].op = op}
FetchedBefore(op, i) ==
    {j \in CacheCallsOf(op) : j < i /\ cacheLog[j].requested /\ cacheLog[j].ok}
Latest(S) == CHOOSE j \in S : \A k \in S : k <= j
Earliest(S) == CHOOSE j \in S : \A k \in S : j <= k

\* C31: a call of getWalletInfo answers without a request exactly when an
\* earlier call fetched with success, forceRefresh is false and the call comes
\* less than 30000 ms after the latest such fetch; it then returns what that
\* fetch stored, which is less than 30000 ms old; every other call fetches, and
\* what a successful fetch returns dates from the fetch.
C31_WalletCacheWithinThirtySeconds ==
    \A i \in CacheCallsOf("getWalletInfo") :
        LET call == cacheLog[i]
            fetched == FetchedBefore("getWalletInfo", i)
        IN /\ ~call.requested <=>
                  /\ fetched # {}
                  /\ ~call.forceRefresh
                  /\ call.at - cacheLog[Latest(fetched)].doneAt < 30000
           /\ ~call.requested =>
                  /\ call.ok
                  /\ call.value = cacheLog[Latest(fetched)].value
                  /\ call.at - call.value.lastUpdated < 30000
           /\ (call.requested /\ call.ok) => call.value.lastUpdated = call.doneAt

C31_Witness ==
    \E i, k \in CacheCallsOf("getWalletInfo") :
        /\ i < k
        /\ ~cacheLog[i].requested
        /\ cacheLog[i].at - cacheLog[i].value.lastUpdated = 30000 - 1
        /\ cacheLog[k].requested
        /\ ~cacheLog[k].forceRefresh
        /\ cacheLog[k].at - cacheLog[i].value.lastUpdated = 30000

\* C39: a call of getSupportedTokens fetches exactly when no earlier call
\* fetched a response with a tokens field; a fetch returns, and stores the
\* map, exactly when its response has a tokens field; every other call
\* returns the map the first such fetch stored; the cache holds that map, and
\* is empty when no fetch brought one.
C39_TokenCacheFilledOnce ==
    /\ \A i \in CacheCallsOf("getSupportedTokens") :
           LET call == cacheLog[i]
               fetched == FetchedBefore("getSupportedTokens", i)
           IN /\ call.requested <=> fetched = {}
              /\ call.requested =>
                     /\ call.ok <=> (call.answer.ok /\ call.answer.tokens # NoTokens)
                     /\ call.ok => call.tokens = call.answer.tokens
              /\ ~call.requested =>
                     /\ call.ok
                     /\ call.tokens = cacheLog[Earliest(fetched)].tokens
    /\ LET fetched == FetchedBefore("getSupportedTokens", Len(cacheLog) + 1)
       IN supportedTokens = IF fetched = {} THEN NoTokens
                            ELSE cacheLog[Earliest(fetched)].tokens

C39_Witness ==
    \E i, j, k \in CacheCallsOf("getSupportedTokens") :
        /\ i < j /\ j < k
        /\ cacheLog[i].requested /\ ~cacheLog[i].ok
        /\ cacheLog[j].requested /\ cacheLog[j].ok
        /\ ~cacheLog[k].requested
        /\ cacheLog[k].tokens = cacheLog[j].answer.tokens

====
